---- MODULE Spec2Model ----
(***************************************************************************)
(* Daily activity-schedule MILP of optims-sbb: the constraints posted by   *)
(* BasicModel, ActivitySequence and TravelDecisions, and the assignments   *)
(* a solving backend can return for them.                                  *)
(*                                                                         *)
(* The formulation is a set of linear constraints over decision variables. *)
(* Every constraint line of the source is one operator over a candidate    *)
(* assignment.  The backend is a search: it fixes the variables block by   *)
(* block, drops a branch as soon as a posted constraint whose variables    *)
(* are all fixed is violated, and reports the assignment (pc = "solved")   *)
(* only when every posted constraint holds.  Continuous variables range    *)
(* over an integer grid.                                                   *)
(***************************************************************************)
EXTENDS Integers, Sequences, FiniteSets, TLC

VARIABLES
    act_set,            \* ActivitySet.activities of the person (a sequence of Activity)
    config,             \* ConfigContainer: time_periods, modes, model_settings, solver_settings
    activity_scoring,   \* ActivityParam.param: (act_type, scoring_group) -> parameter row
    travel_dict,        \* TravelDict: (mode, indicator, time period, origin, destination) -> value
    pc,                 \* position of the build / solve pipeline
    w,                  \* w[a]: activity a takes place
    z,                  \* z[a, b]: b is performed right after a
    x,                  \* x[a]: start time
    d,                  \* d[a]: duration
    tt,                 \* tt[a]: travel time after a
    w_tour,             \* w_tour[a, t]: a takes place in tour t
    w_subtour,          \* w_subtour[a]: a takes place in a sub-tour
    loc_choice,         \* loc_choice[a, l]: location l chosen for a
    mode_ch,            \* mode_ch[a, m]: mode m chosen for the leg leaving a
    two_prim_acts_in_tour,  \* two_prim_acts_in_tour[a]
    chain_posted,       \* outcome of posting the chaining pair on a candidate
    x_penalty,          \* x_penalty[a]: start time penalty
    d_penalty,          \* d_penalty[a]: duration penalty (only for the scored activities)
    ea_max,             \* ea_max[a, i]: early deviation from desired start time i
    la_max,             \* la_max[a, i]: late deviation from desired start time i
    sd_max,             \* sd_max[a, i]: short deviation from desired duration i
    ld_max,             \* ld_max[a, i]: long deviation from desired duration i
    w_x,                \* w_x[a, i]: desired start time i is the chosen one
    w_d,                \* w_d[a, i]: desired duration i is the chosen one
    travel_cost,        \* travel_cost[a]
    obj_aux,            \* obj_aux[a]: utility of a in the objective
    objective_value,    \* the value of the objective the backend proved optimal
    obj_posted,         \* outcome of posting the objective constraints on a candidate
    time_slot_ch,       \* time_slot_ch[a, p]: a starts in time period p
    mode_loc_time_decision_prod,  \* product of the choices for the leg from a to b
    looked_up,          \* what a call of TravelDict.get_value returned or raised
    output,             \* what update_activity_set returned or raised
    scenario,           \* ScenarioContainer of a run of the Simulator
    task,               \* task[p]: position of the problem of person p
    steps,              \* steps[p]: the calls made on the model of person p
    mailbox,            \* inc calls sent to the ScheduleCounterActor and not yet executed
    counter,            \* ScheduleCounterActor.counter
    output_list,        \* output_list[p]: what the task of person p returned
    completed,          \* the persons in the order in which their problems ended
    solution            \* Solution.output_container, and how the run ended

ModelVars == <<w, z, x, d, tt, w_tour, w_subtour, loc_choice, mode_ch, two_prim_acts_in_tour, chain_posted>>

PenaltyVars == <<x_penalty, d_penalty, ea_max, la_max, sd_max, ld_max, w_x, w_d, travel_cost, obj_aux,
                 objective_value, obj_posted>>

ProductVars == <<time_slot_ch, mode_loc_time_decision_prod>>

ResultVars == <<looked_up, output>>

SimulatorVars == <<scenario, task, steps, mailbox, counter, output_list, completed, solution>>

vars == <<act_set, config, activity_scoring, travel_dict, pc, ModelVars, PenaltyVars, ProductVars,
          ResultVars, SimulatorVars>>

-----------------------------------------------------------------------------
(* Bounds of the model *)

\* largest day horizon of a scenario; start times and durations range over 0..MaxTime
MaxTime == 6

\* largest value of the chaining-pair candidates (x, d, tt) drawn in SpecChain
MaxPairVal == 3

-----------------------------------------------------------------------------
(* Names *)

HOME_NAME == "home"
DAWN_NAME == "dawn"
DUSK_NAME == "dusk"

HomeTypes == {HOME_NAME, DAWN_NAME, DUSK_NAME}

Empty == [e \in {} |-> 0]

RECURSIVE Sum(_, _)
Sum(f, S) == IF S = {} THEN 0
             ELSE LET e == CHOOSE e \in S : TRUE IN f[e] + Sum(f, S \ {e})

Range(s) == {s[i] : i \in DOMAIN s}

Max(S) == CHOOSE m \in S : \A n \in S : n <= m

-----------------------------------------------------------------------------
(* ActivitySet *)

Activity(label, grp, typ, tour_type, tour_no, is_primary, is_subtour, part, locs, loc_grp) ==
    [label |-> label, scoring_group |-> grp, act_type |-> typ, tour_type |-> tour_type,
     tour_no |-> tour_no, is_primary |-> is_primary, is_subtour |-> is_subtour,
     participation |-> part, locations |-> locs, location_group |-> loc_grp]

Activities == Range(act_set)

get_labels == {a.label : a \in Activities}

get_label_to_act(l) == CHOOSE a \in Activities : a.label = l

get_acts_wo_home == {a \in Activities : a.act_type \notin HomeTypes}

get_labels_wo_home == {a.label : a \in get_acts_wo_home}

get_labels_wo_dusk == {a.label : a \in {b \in Activities : b.act_type /= DUSK_NAME}}

get_tour_numbers == 1 .. (Len(act_set) - Cardinality(get_acts_wo_home) - 1)

HomeLabels == {a.label : a \in {b \in Activities : b.act_type \in HomeTypes}}

PrimaryLabels == {a.label : a \in {b \in Activities : b.is_primary}}

\* prim_acts_tour_no.count(t)
PrimCount(t) == Cardinality({i \in DOMAIN act_set : act_set[i].is_primary /\ act_set[i].tour_no = t})

-----------------------------------------------------------------------------
(* BasicModel._add_basic_constraints: one operator per posted constraint *)

max_time == Max({config.time_periods[i].period[2] : i \in DOMAIN config.time_periods})

params_for_activity(a) ==
    LET act == get_label_to_act(a) IN activity_scoring[<<act.act_type, act.scoring_group>>]

DayBudget_NoTravel(dd, ttt) == Sum(dd, get_labels) = max_time

\* sum of all durations and travel times must equal the day time budget
DayBudget(dd, ttt) ==
    Sum([a \in get_labels |-> dd[a] + ttt[a]], get_labels) = max_time

NoActivityBeforeDawn(zz, a) == zz[a, DAWN_NAME] = 0

NoActivityAfterDusk(zz, a) == zz[DUSK_NAME, a] = 0

SameActivity(zz, a) == zz[a, a] = 0

EitherOrder(zz, a, b) == zz[a, b] + zz[b, a] <= 1

MinimalDuration(ww, dd, a) == ww[a] * config.model_settings.min_act_duration <= dd[a]

FeasibleStart(xx, a) == xx[a] >= params_for_activity(a).feasible_start

FeasibleEnd_StartOnly(xx, dd, a) == xx[a] <= params_for_activity(a).feasible_end

FeasibleEnd(xx, dd, a) == xx[a] + dd[a] <= params_for_activity(a).feasible_end

InferiorTimes(zz, xx, dd, ttt, a, b) ==
    xx[a] + dd[a] + ttt[a] - xx[b] >= (zz[a, b] - 1) * max_time

SuperiorTimes_Loose(zz, xx, dd, ttt, a, b) ==
    xx[a] + dd[a] + ttt[a] - xx[b] <= (1 - zz[a, b]) * max_time + 1

SuperiorTimes(zz, xx, dd, ttt, a, b) ==
    xx[a] + dd[a] + ttt[a] - xx[b] <= (1 - zz[a, b]) * max_time

DawnStart(xx, a) == a = DAWN_NAME => xx[a] = 0

Predecessor_Missing(ww, zz, a) == TRUE

Predecessor(ww, zz, a) ==
    a /= DAWN_NAME => Sum([b \in get_labels \ {a} |-> zz[b, a]], get_labels \ {a}) = ww[a]

DuskEnd_AtMost(xx, dd, a) == a = DUSK_NAME => xx[a] + dd[a] <= max_time

DuskEnd(xx, dd, a) == a = DUSK_NAME => xx[a] + dd[a] = max_time

Successor_Missing(ww, zz, a) == TRUE

Successor(ww, zz, a) ==
    a /= DUSK_NAME => Sum([b \in get_labels \ {a} |-> zz[a, b]], get_labels \ {a}) = ww[a]

\* the loop body of _add_basic_constraints for activity a
BasicConstraintsFor(ww, zz, xx, dd, ttt, a) ==
    /\ NoActivityBeforeDawn(zz, a)
    /\ NoActivityAfterDusk(zz, a)
    /\ SameActivity(zz, a)
    /\ \A b \in get_labels \ {a} : EitherOrder(zz, a, b)
    /\ MinimalDuration(ww, dd, a)
    /\ FeasibleStart(xx, a)
    /\ FeasibleEnd(xx, dd, a)
    /\ \A b \in get_labels : InferiorTimes(zz, xx, dd, ttt, a, b) /\ SuperiorTimes(zz, xx, dd, ttt, a, b)
    /\ DawnStart(xx, a)
    /\ Predecessor(ww, zz, a)
    /\ DuskEnd(xx, dd, a)
    /\ Successor(ww, zz, a)

add_basic_constraints(ww, zz, xx, dd, ttt) ==
    /\ DayBudget(dd, ttt)
    /\ \A a \in get_labels : BasicConstraintsFor(ww, zz, xx, dd, ttt, a)

-----------------------------------------------------------------------------
(* ActivitySequence.add_restrictions *)

\* enforce activities to take place if participation is fixed
fix_activity_participation(ww) ==
    \A a \in Activities : ww[a.label] >= a.participation

\* no two home activities directly after each other
NoTwoHome(zz, a) == \A b \in HomeLabels : zz[a, b] <= 0

\* no two primary activities directly after each other
NoTwoPrimary(zz, a) == \A b \in PrimaryLabels : zz[a, b] <= 0

restrict_sequence_of_home_and_primary_activities(zz) ==
    /\ \A a \in HomeLabels : NoTwoHome(zz, a)
    /\ \A a \in PrimaryLabels : NoTwoPrimary(zz, a)

OneTourNumber(ww, wt, a) ==
    Sum([t \in get_tour_numbers |-> wt[a, t]], get_tour_numbers) >= ww[a]

\* w_tour must be the same for a and b if b is performed right after a
SameTour(zz, wt, a, b, tour_no) ==
    /\ zz[a, b] <= wt[a, tour_no] - wt[b, tour_no] + 1
    /\ zz[a, b] <= wt[b, tour_no] - wt[a, tour_no] + 1

add_tour_indicator_variable(ww, zz, wt) ==
    \A a \in get_labels_wo_dusk :
        /\ OneTourNumber(ww, wt, a)
        /\ \A b \in get_labels_wo_home : \A tour_no \in get_tour_numbers :
               SameTour(zz, wt, a, b, tour_no)

fix_number_of_primary_activities_per_tour_AtLeast(wt) ==
    \A t \in get_tour_numbers :
        Sum([a \in PrimaryLabels |-> wt[a, t]], PrimaryLabels) >= PrimCount(t)

\* the amount of primary activities of each tour is the one of the activity set
fix_number_of_primary_activities_per_tour(wt) ==
    \A t \in get_tour_numbers :
        Sum([a \in PrimaryLabels |-> wt[a, t]], PrimaryLabels) = PrimCount(t)

\* tour_dict: the tour type of the last primary activity carrying tour number t,
\* 'secondary' for a tour number no primary activity carries
tour_dict(t) ==
    LET prim == {i \in DOMAIN act_set : act_set[i].is_primary /\ act_set[i].tour_no = t}
    IN IF prim = {} THEN "secondary" ELSE act_set[Max(prim)].tour_type

fix_tour_types(ww, wt) ==
    \A a \in get_acts_wo_home :
        LET own == {t \in get_tour_numbers : tour_dict(t) = a.tour_type}
        IN Sum([t \in own |-> wt[a.label, t]], own) >= ww[a.label]

two_prim_act_tours == {t \in get_tour_numbers : PrimCount(t) = 2}

SubtourCount_AtMost(ws) ==
    Cardinality(two_prim_act_tours) >= Sum([a \in PrimaryLabels |-> ws[a]], PrimaryLabels)

SubtourCount(ws) ==
    Cardinality(two_prim_act_tours) = Sum([a \in PrimaryLabels |-> ws[a]], PrimaryLabels)

SameSubtour_OneWay(zz, ws, a, b) == zz[a, b] <= ws[a] - ws[b] + 1

\* activities between two primary activities are part of the sub-tour as well
SameSubtour(zz, ws, a, b) ==
    /\ zz[a, b] <= ws[a] - ws[b] + 1
    /\ zz[a, b] <= ws[b] - ws[a] + 1

add_subtour_indicator_FromNonPrimary(zz, ws) ==
    /\ SubtourCount(ws)
    /\ \A a \in get_labels \ PrimaryLabels : \A b \in get_labels : SameSubtour(zz, ws, a, b)

add_subtour_indicator(zz, ws) ==
    /\ SubtourCount(ws)
    /\ \A a \in get_labels : \A b \in get_labels \ PrimaryLabels : SameSubtour(zz, ws, a, b)

fix_subtour_activities(ws) ==
    \A a \in Activities :
        IF a.act_type \in HomeTypes THEN ws[a.label] = 0
        ELSE IF a.is_subtour /\ ~a.is_primary THEN ws[a.label] = 1
        ELSE IF ~a.is_subtour /\ ~a.is_primary THEN ws[a.label] = 0
        ELSE TRUE

add_restrictions(ww, zz, wt, ws) ==
    /\ fix_activity_participation(ww)
    /\ restrict_sequence_of_home_and_primary_activities(zz)
    /\ add_tour_indicator_variable(ww, zz, wt)
    /\ fix_number_of_primary_activities_per_tour(wt)
    /\ fix_tour_types(ww, wt)
    /\ add_subtour_indicator(zz, ws)
    /\ fix_subtour_activities(ws)

-----------------------------------------------------------------------------
(* TravelDecisions *)

\* TravelDict.get_mode_list
get_mode_list == {k[1] : k \in DOMAIN travel_dict}

modes == {config.modes[i].name : i \in {j \in DOMAIN config.modes : config.modes[j].name \in get_mode_list}}

home_based_modes ==
    {config.modes[i].name : i \in {j \in DOMAIN config.modes :
        config.modes[j].home_bound /\ config.modes[j].name \in get_mode_list}}

time_periods == {config.time_periods[i].name : i \in DOMAIN config.time_periods}

\* the branch of add_variables: are choice variables and the product introduced?
ChoiceVariablesBuilt ==
    \/ Cardinality(modes) > 1
    \/ Cardinality(time_periods) > 1
    \/ \E a \in Activities : Len(a.locations) > 1

\* TravelDict.get_value: the entry of the nested mapping
\* mode -> indicator -> time period -> (origin, destination)
get_value(mode, indicator, time_period, origin, destination) ==
    travel_dict[<<mode, indicator, time_period, origin, destination>>]

AllLocations == UNION {Range(a.locations) : a \in Activities}

\* the (b, o, d, m, tp) of the generator expression: b an activity, o a candidate
\* location of a, d a candidate location of b, m a mode, tp a time period
TravelTerms(a) ==
    {e \in get_labels \X AllLocations \X AllLocations \X modes \X time_periods :
        /\ e[2] \in Range(a.locations)
        /\ e[3] \in Range(get_label_to_act(e[1]).locations)}

\* the nested mapping has the entry: indexing it raises no KeyError
has_value(mode, indicator, time_period, origin, destination) ==
    <<mode, indicator, time_period, origin, destination>> \in DOMAIN travel_dict

TravelKeysExist_DirectLegsOnly ==
    \A a \in Activities : \A e \in TravelTerms(a) :
        e[1] /= a.label => has_value(e[4], "travel_times", e[5], e[2], e[3])

\* every get_value call of the travel time constraint, simple or mode specific, finds
\* its entry
TravelKeysExist ==
    \A a \in Activities : \A e \in TravelTerms(a) :
        has_value(e[4], "travel_times", e[5], e[2], e[3])

\* travel time for one global mode, one period and one location per activity
add_simple_travel_time_constraint(zz, ttt) ==
    \A a \in Activities :
        ttt[a.label] = Sum([e \in TravelTerms(a) |->
                              zz[a.label, e[1]] * get_value(e[4], "travel_times", e[5], e[2], e[3])],
                           TravelTerms(a))

\* one mode per trip only
add_mode_choice_variable(mc) ==
    \A a \in get_labels : Sum([m \in modes |-> mc[a, m]], modes) = 1

\* two_prim_acts_in_tour[a] is one if a is a primary activity of a tour with two of them
TwoPrimActsInTour(wt, tp, a) ==
    tp[a.label] = Sum([t \in get_tour_numbers |->
                         (IF a.is_primary THEN 1 ELSE 0) * (IF t \in two_prim_act_tours THEN 1 ELSE 0)
                            * wt[a.label, t]], get_tour_numbers)

SameModeInTour_Loose(zz, mc, tp, a, b, mode) ==
    /\ zz[a, b] <= mc[a, mode] - mc[b, mode] + 1 + 1
    /\ zz[a, b] <= mc[b, mode] - mc[a, mode] + 1 + 1

\* same mode from and to the activities of a tour; loose towards a primary activity
\* of a tour with two primary activities
SameModeInTour(zz, mc, tp, a, b, mode) ==
    /\ zz[a, b] <= mc[a, mode] - mc[b, mode] + 1 + tp[b]
    /\ zz[a, b] <= mc[b, mode] - mc[a, mode] + 1 + tp[b]

SameModeAroundSubtour_Slack(zz, mc, a, p, q, mode) ==
    /\ mc[a, mode] >= mc[p, mode] - 2 + zz[a, q]
    /\ mc[a, mode] <= mc[q, mode] + 2 - zz[a, p]

\* the same mode to the first primary activity and from the second one away
SameModeAroundSubtour(zz, mc, a, p, q, mode) ==
    /\ mc[a, mode] >= mc[p, mode] - 1 + zz[a, q]
    /\ mc[a, mode] <= mc[q, mode] + 1 - zz[a, p]

\* a home-bound mode is not available in the sub-tour unless it is used to get to
\* the primary activity
HomeBoundMode(zz, mc, ws, a, mode, p) ==
    mc[p, mode] <= mc[a, mode] + 1 - zz[a, p] + ws[a]

subtour_based_mode_choice_constraints(zz, mc, wt, ws, tp) ==
    /\ \A a \in get_acts_wo_home : TwoPrimActsInTour(wt, tp, a)
    /\ \A a \in get_labels_wo_dusk : \A b \in get_labels_wo_home : \A mode \in modes :
          SameModeInTour(zz, mc, tp, a, b, mode)
    /\ \A a \in get_labels : \A p \in PrimaryLabels : \A q \in PrimaryLabels \ {p} : \A mode \in modes :
          SameModeAroundSubtour(zz, mc, a, p, q, mode)
    /\ \A a \in get_labels : \A mode \in home_based_modes : \A p \in PrimaryLabels :
          HomeBoundMode(zz, mc, ws, a, mode, p)

\* the keys (a.label, l.name) of loc_choice
LocChoiceKeys == {k \in get_labels \X AllLocations : k[2] \in Range(get_label_to_act(k[1]).locations)}

\* location_groups: the members of group g in the order of the activity set
GroupNames == {a.location_group : a \in Activities} \ {""}

GroupMembers(g) == {i \in DOMAIN act_set : act_set[i].location_group = g}

first_act(g) == act_set[CHOOSE i \in GroupMembers(g) : \A j \in GroupMembers(g) : i <= j]

\* acts[1:]
OtherMembers(g) == {act_set[i] : i \in GroupMembers(g)} \ {first_act(g)}

\* loc_choice[first_act.label, l.name] of a location the member does not have: KeyError
LocationGroupKeysExist ==
    \A g \in GroupNames : \A a \in OtherMembers(g) :
        Range(first_act(g).locations) \subseteq Range(a.locations)

add_location_choice_variable_FirstLocationOnly(lc) ==
    /\ \A a \in Activities :
          Sum([i \in DOMAIN a.locations |-> lc[a.label, a.locations[i]]], DOMAIN a.locations) = 1
    /\ \A g \in GroupNames : \A a \in OtherMembers(g) :
          lc[first_act(g).label, first_act(g).locations[1]] - lc[a.label, first_act(g).locations[1]] = 0

add_location_choice_variable(lc) ==
    /\ \A a \in Activities :
          Sum([i \in DOMAIN a.locations |-> lc[a.label, a.locations[i]]], DOMAIN a.locations) = 1
    /\ \A g \in GroupNames : \A a \in OtherMembers(g) : \A l \in Range(first_act(g).locations) :
          lc[first_act(g).label, l] - lc[a.label, l] = 0

\* the interval of a configured time period
period(time_slot) ==
    config.time_periods[CHOOSE i \in DOMAIN config.time_periods :
                           config.time_periods[i].name = time_slot].period

\* one time slot per activity, and none whose interval does not hold the start time
add_time_slot_variable(xx, ts) ==
    \A a \in get_labels :
        /\ Sum([time_slot \in time_periods |-> ts[a, time_slot]], time_periods) = 1
        /\ \A time_slot \in time_periods :
              /\ xx[a] >= period(time_slot)[1] - config.solver_settings.big_m * (1 - ts[a, time_slot])
              /\ xx[a] <= period(time_slot)[2] + config.solver_settings.big_m * (1 - ts[a, time_slot])

\* the keys (a.label, b.label, o.name, d.name, mode, time_slot) of the product
ProductKeys ==
    {k \in get_labels \X get_labels \X AllLocations \X AllLocations \X modes \X time_periods :
        /\ k[3] \in Range(get_label_to_act(k[1]).locations)
        /\ k[4] \in Range(get_label_to_act(k[2]).locations)}

ProductOfChoices_UpperBoundsOnly(zz, mc, lc, ts, k, v) ==
    /\ v <= zz[k[1], k[2]]
    /\ v <= mc[k[1], k[5]]
    /\ v <= lc[k[1], k[3]]
    /\ v <= lc[k[2], k[4]]
    /\ v <= ts[k[1], k[6]]

\* product is only 1 for 1 combination of mode, location and time decision
ProductOfChoices(zz, mc, lc, ts, k, v) ==
    /\ v <= zz[k[1], k[2]]
    /\ v <= mc[k[1], k[5]]
    /\ v <= lc[k[1], k[3]]
    /\ v <= lc[k[2], k[4]]
    /\ v <= ts[k[1], k[6]]
    /\ v >= zz[k[1], k[2]] + mc[k[1], k[5]] + lc[k[1], k[3]] + lc[k[2], k[4]] + ts[k[1], k[6]] - 4

add_location_mode_time_slot_product(zz, mc, lc, ts, prod) ==
    \A k \in ProductKeys : ProductOfChoices(zz, mc, lc, ts, k, prod[k])

\* travel time as a look-up from the matrix, selected by the product
add_mode_specific_travel_time_constraint(ttt, prod) ==
    \A a \in Activities :
        ttt[a.label] = Sum([e \in TravelTerms(a) |->
                              get_value(e[4], "travel_times", e[5], e[2], e[3])
                                 * prod[a.label, e[1], e[2], e[3], e[4], e[5]]],
                           TravelTerms(a))

-----------------------------------------------------------------------------
(* OptimizationCore.formulate_problem: everything posted for one person *)

formulate_problem(ww, zz, xx, dd, ttt, wt, ws) ==
    /\ add_basic_constraints(ww, zz, xx, dd, ttt)
    /\ add_restrictions(ww, zz, wt, ws)
    /\ ~ChoiceVariablesBuilt => add_simple_travel_time_constraint(zz, ttt)

-----------------------------------------------------------------------------
(* Scenarios: persons with their activity set, parameters and travel matrix *)

Locs == {"H", "W", "S"}

OneMode == <<[name |-> "walk", home_bound |-> FALSE]>>

DayPeriod == <<[name |-> "day", period |-> <<0, MaxTime>>]>>

Config(mds, restr) ==
    [time_periods |-> DayPeriod, modes |-> mds,
     model_settings |-> [min_act_duration |-> 1, mode_choice_restrictions |-> restr],
     solver_settings |-> [big_m |-> 1000]]

Window(fs, fe) == [feasible_start |-> fs, feasible_end |-> fe]

\* the parameter row (work, "core") has a window strictly inside the day,
\* every other row lets the activity fill the day
Scoring ==
    [k \in ({HOME_NAME, DAWN_NAME, DUSK_NAME, "work", "shop"} \X {""}) \cup {<<"work", "core">>} |->
        IF k = <<"work", "core">> THEN Window(2, MaxTime - 2) ELSE Window(0, MaxTime)]

\* the leg from home to work takes hw, every other leg takes no time
Travel(mds, hw) ==
    [k \in {mds[i].name : i \in DOMAIN mds} \X {"travel_times"} \X {"day"} \X Locs \X Locs |->
        IF k[4] = "H" /\ k[5] = "W" THEN hw ELSE 0]

Dawn == Activity(DAWN_NAME, "", DAWN_NAME, "secondary", -1, FALSE, FALSE, 1, <<"H">>, "")
Dusk == Activity(DUSK_NAME, "", DUSK_NAME, "secondary", -1, FALSE, FALSE, 1, <<"H">>, "")
Home(part) == Activity("home1", "", HOME_NAME, "secondary", -1, FALSE, FALSE, part, <<"H">>, "")
Work(label, group, tour_no, part) ==
    Activity(label, group, "work", "primary", tour_no, TRUE, FALSE, part, <<"W">>, "")
Shop(tour_type, is_subtour, part) ==
    Activity("shop1", "", "shop", tour_type, -1, FALSE, is_subtour, part, <<"S">>, "")

Participations == {-1, 0, 1}

\* dawn - work - dusk
SetOneWork == {<<Dawn, Work("work1", "core", 1, p), Dusk>> : p \in Participations}

\* dawn, one work, one optional shop, dusk: one tour
SetWorkShop == {<<Dawn, Work("work1", "core", 1, 1), Shop("primary", FALSE, p), Dusk>> : p \in Participations}

\* two work episodes of one tour with a shop that may lie between them
SetTwoWork ==
    {<<Dawn, Work("work1", "", 1, 1), Shop("primary", s, p), Work("work2", "", 1, 1), Dusk>> :
        s \in BOOLEAN, p \in {-1, 1}}

\* a work tour and a second tour after an intermediate stay at home
SetTwoTours ==
    {<<Dawn, Work("work1", "", 1, 1), Home(1), Shop(ty, FALSE, p), Dusk>> :
        ty \in {"primary", "secondary"}, p \in Participations}

ActivitySets == SetOneWork \cup SetWorkShop \cup SetTwoWork \cup SetTwoTours

NoPenalties ==
    /\ x_penalty = Empty /\ d_penalty = Empty /\ ea_max = Empty /\ la_max = Empty
    /\ sd_max = Empty /\ ld_max = Empty /\ w_x = Empty /\ w_d = Empty
    /\ travel_cost = Empty /\ obj_aux = Empty /\ objective_value = 0 /\ obj_posted = "none"

NoProduct == time_slot_ch = Empty /\ mode_loc_time_decision_prod = Empty

NoOutput == looked_up = "none" /\ output = [status |-> "none"]

NoRun ==
    /\ scenario = [persons |-> <<>>]
    /\ task = Empty /\ steps = Empty /\ mailbox = 0 /\ counter = 0
    /\ output_list = Empty /\ completed = <<>> /\ solution = [status |-> "none"]

Unassigned ==
    /\ w = Empty /\ z = Empty /\ x = Empty /\ d = Empty /\ tt = Empty
    /\ w_tour = Empty /\ w_subtour = Empty
    /\ loc_choice = Empty /\ mode_ch = Empty /\ two_prim_acts_in_tour = Empty
    /\ chain_posted = "none"
    /\ NoPenalties /\ NoProduct /\ NoOutput /\ NoRun

Init ==
    /\ act_set \in ActivitySets
    /\ config = Config(OneMode, "none")
    /\ activity_scoring = Scoring
    /\ travel_dict \in {Travel(OneMode, hw) : hw \in 0 .. 1}
    /\ pc = "start"
    /\ Unassigned

-----------------------------------------------------------------------------
(* The solving backend: fixes the variables block by block *)

Bin == {0, 1}

\* add row a to a partial z
WithRow(zz, a, row) ==
    [p \in DOMAIN zz \cup ({a} \X get_labels) |-> IF p[1] = a THEN row[p[2]] ELSE zz[p]]

RowsOf(zz) == {p[1] : p \in DOMAIN zz}

\* the posted constraints all of whose variables lie in w and the rows R of z
RowsFeasible(ww, zz, R) ==
    \A a \in R :
        /\ NoActivityBeforeDawn(zz, a)
        /\ DUSK_NAME \in R => NoActivityAfterDusk(zz, a)
        /\ SameActivity(zz, a)
        /\ \A b \in R \ {a} : EitherOrder(zz, a, b)
        /\ Successor(ww, zz, a)
        /\ a \in HomeLabels => NoTwoHome(zz, a)
        /\ a \in PrimaryLabels => NoTwoPrimary(zz, a)
        /\ R = get_labels => Predecessor(ww, zz, a)

\* the posted constraints all of whose variables lie in z, tt and the x, d of T
TimesFeasible(ww, zz, xx, dd, ttt, T) ==
    \A a \in T :
        /\ MinimalDuration(ww, dd, a)
        /\ FeasibleStart(xx, a)
        /\ FeasibleEnd(xx, dd, a)
        /\ \A b \in T : InferiorTimes(zz, xx, dd, ttt, a, b) /\ SuperiorTimes(zz, xx, dd, ttt, a, b)
        /\ DawnStart(xx, a)
        /\ DuskEnd(xx, dd, a)

NextLabel(done) == act_set[Cardinality(done) + 1].label

Inputs == <<act_set, config, activity_scoring, travel_dict>>

\* formulate_problem builds the model; the choice variables are only built, and their
\* keys only looked up, on the branch with more than one alternative
FormulateProblem ==
    /\ pc = "start"
    /\ ChoiceVariablesBuilt => LocationGroupKeysExist
    /\ TravelKeysExist
    /\ pc' = "formulated"
    /\ UNCHANGED <<PenaltyVars, ProductVars, ResultVars, SimulatorVars,
                   Inputs, w, z, x, d, tt, w_tour, w_subtour, loc_choice, mode_ch,
                   two_prim_acts_in_tour, chain_posted>>

\* formulate_problem raises: no model, nothing to solve
FormulateProblemFails ==
    /\ pc = "start"
    /\ (ChoiceVariablesBuilt /\ ~LocationGroupKeysExist) \/ ~TravelKeysExist
    /\ pc' = "failed"
    /\ UNCHANGED <<PenaltyVars, ProductVars, ResultVars, SimulatorVars,
                   Inputs, w, z, x, d, tt, w_tour, w_subtour, loc_choice, mode_ch,
                   two_prim_acts_in_tour, chain_posted>>

SolveParticipation ==
    /\ pc = "formulated"
    /\ \E ww \in [get_labels -> Bin] :
          /\ fix_activity_participation(ww)
          /\ w' = ww
    /\ pc' = "z"
    /\ UNCHANGED <<PenaltyVars, ProductVars, ResultVars, SimulatorVars,
                   act_set, config, activity_scoring, travel_dict, z, x, d, tt, w_tour,
                   w_subtour, loc_choice, mode_ch, two_prim_acts_in_tour, chain_posted>>

SolveSequenceRow ==
    /\ pc = "z"
    /\ LET a == NextLabel(RowsOf(z)) IN
       \E row \in [get_labels -> Bin] :
          LET zz == WithRow(z, a, row) IN
          /\ RowsFeasible(w, zz, RowsOf(zz))
          /\ z' = zz
          /\ pc' = IF RowsOf(zz) = get_labels THEN "tour" ELSE "z"
    /\ UNCHANGED <<PenaltyVars, ProductVars, ResultVars, SimulatorVars,
                   act_set, config, activity_scoring, travel_dict, w, x, d, tt, w_tour,
                   w_subtour, loc_choice, mode_ch, two_prim_acts_in_tour, chain_posted>>

SolveTour ==
    /\ pc = "tour"
    /\ \E wt \in [get_labels_wo_dusk \X get_tour_numbers -> Bin] :
          /\ add_tour_indicator_variable(w, z, wt)
          /\ fix_number_of_primary_activities_per_tour(wt)
          /\ fix_tour_types(w, wt)
          /\ w_tour' = wt
    /\ pc' = "subtour"
    /\ UNCHANGED <<PenaltyVars, ProductVars, ResultVars, SimulatorVars,
                   act_set, config, activity_scoring, travel_dict, w, z, x, d, tt,
                   w_subtour, loc_choice, mode_ch, two_prim_acts_in_tour, chain_posted>>

SolveSubtour ==
    /\ pc = "subtour"
    /\ \E ws \in [get_labels -> Bin] :
          /\ add_subtour_indicator(z, ws)
          /\ fix_subtour_activities(ws)
          /\ w_subtour' = ws
    /\ pc' = IF ChoiceVariablesBuilt THEN "loc" ELSE "tt"
    /\ UNCHANGED <<PenaltyVars, ProductVars, ResultVars, SimulatorVars,
                   act_set, config, activity_scoring, travel_dict, w, z, x, d, tt,
                   w_tour, loc_choice, mode_ch, two_prim_acts_in_tour, chain_posted>>

TravelValues == {travel_dict[k] : k \in DOMAIN travel_dict}

SolveTravelTime ==
    /\ pc = "tt"
    /\ \E ttt \in [get_labels -> 0 .. (Max(TravelValues) + 1)] :
          /\ add_simple_travel_time_constraint(z, ttt)
          /\ tt' = ttt
    /\ pc' = "time"
    /\ UNCHANGED <<PenaltyVars, ProductVars, ResultVars, SimulatorVars,
                   act_set, config, activity_scoring, travel_dict, w, z, x, d,
                   w_tour, w_subtour, loc_choice, mode_ch, two_prim_acts_in_tour, chain_posted>>

SolveTime ==
    /\ pc = "time"
    /\ LET a == NextLabel(DOMAIN x) IN
       \E xa \in 0 .. MaxTime, da \in 0 .. MaxTime :
          LET xx == [b \in DOMAIN x \cup {a} |-> IF b = a THEN xa ELSE x[b]]
              dd == [b \in DOMAIN d \cup {a} |-> IF b = a THEN da ELSE d[b]]
          IN /\ TimesFeasible(w, z, xx, dd, tt, DOMAIN xx)
             /\ DOMAIN xx = get_labels => formulate_problem(w, z, xx, dd, tt, w_tour, w_subtour)
             /\ x' = xx
             /\ d' = dd
             /\ pc' = IF DOMAIN xx = get_labels THEN "solved" ELSE "time"
    /\ UNCHANGED <<PenaltyVars, ProductVars, ResultVars, SimulatorVars,
                   act_set, config, activity_scoring, travel_dict, w, z, tt,
                   w_tour, w_subtour, loc_choice, mode_ch, two_prim_acts_in_tour, chain_posted>>

Next ==
    \/ FormulateProblem
    \/ SolveParticipation
    \/ SolveSequenceRow
    \/ SolveTour
    \/ SolveSubtour
    \/ SolveTravelTime
    \/ SolveTime

Spec == Init /\ [][Next]_vars

-----------------------------------------------------------------------------
(* Persons with two tours: a primary activity in each, given in either order *)
(* of tour numbers, or one primary tour and a secondary one                  *)

SetPrimaryTours ==
    {<<Dawn, Work("work1", "", t, 1), Home(1), Work("work2", "", 3 - t, 1), Dusk>> : t \in 1 .. 2}
        \cup {<<Dawn, Work("work1", "", 1, 1), Home(1), Shop("secondary", FALSE, 1), Dusk>>}

InitTours ==
    /\ act_set \in SetPrimaryTours
    /\ config = Config(OneMode, "none")
    /\ activity_scoring = Scoring
    /\ travel_dict = Travel(OneMode, 0)
    /\ pc = "start"
    /\ Unassigned

SpecTours == InitTours /\ [][Next]_vars

-----------------------------------------------------------------------------
(* Persons with two work episodes of one tour and two further stops, each of *)
(* which is declared part of the sub-tour or not                             *)

Errand(label, is_subtour, part) ==
    Activity(label, "", "shop", "primary", -1, FALSE, is_subtour, part, <<"S">>, "")

SetNested ==
    {<<Dawn, Work("work1", "", 1, 1), Errand("shop1", TRUE, 1), Errand("shop2", s, 1),
       Work("work2", "", 1, 1), Dusk>> : s \in BOOLEAN}

InitNested ==
    /\ act_set \in SetNested
    /\ config = Config(OneMode, "none")
    /\ activity_scoring = Scoring
    /\ travel_dict = Travel(OneMode, 0)
    /\ pc = "start"
    /\ Unassigned

SpecNested == InitNested /\ [][Next]_vars

-----------------------------------------------------------------------------
(* Persons for whom the choice variables are built *)

TwoModes(hb) == <<[name |-> "car", home_bound |-> hb], [name |-> "walk", home_bound |-> FALSE]>>

Stop(label, locations, group) ==
    Activity(label, "", "shop", "secondary", -1, FALSE, FALSE, 1, locations, group)

\* three stops of one location group; their candidate lists differ in order and extent
SetLocationGroup ==
    {<<Dawn, Stop("shop1", <<"S", "W">>, "g"), Stop("shop2", l2, "g"), Stop("shop3", l3, g3), Dusk>> :
        l2 \in {<<"W", "S">>, <<"S", "W", "H">>},
        l3 \in {<<"S", "W">>, <<"W", "H", "S">>, <<"S">>},
        g3 \in {"g", ""}}

\* two work episodes of one tour around a sub-tour stop
SetSubtour == {<<Dawn, Work("work1", "", 1, 1), Shop("primary", TRUE, 1), Work("work2", "", 1, 1), Dusk>>}

InitChoice ==
    /\ \/ /\ act_set \in SetLocationGroup
          /\ config = Config(OneMode, "none")
          /\ travel_dict = Travel(OneMode, 1)
       \/ /\ act_set \in SetSubtour
          /\ \E hb \in BOOLEAN, restr \in {"subtour_based", "none"} :
                /\ config = Config(TwoModes(hb), restr)
                /\ travel_dict = Travel(TwoModes(hb), 1)
    /\ activity_scoring = Scoring
    /\ pc = "start"
    /\ Unassigned

SolveLocation ==
    /\ pc = "loc"
    /\ \E lc \in [LocChoiceKeys -> Bin] :
          /\ add_location_choice_variable(lc)
          /\ loc_choice' = lc
    /\ pc' = "mode"
    /\ UNCHANGED <<PenaltyVars, ProductVars, ResultVars, SimulatorVars,
                   Inputs, w, z, x, d, tt, w_tour, w_subtour, mode_ch,
                   two_prim_acts_in_tour, chain_posted>>

SubtourBased == config.model_settings.mode_choice_restrictions = "subtour_based"

SolveMode ==
    /\ pc = "mode"
    /\ \E mc \in [get_labels \X modes -> Bin] :
          /\ add_mode_choice_variable(mc)
          /\ mode_ch' = mc
          /\ IF SubtourBased
             THEN \E tp \in [get_labels_wo_home -> Bin] :
                     /\ subtour_based_mode_choice_constraints(z, mc, w_tour, w_subtour, tp)
                     /\ two_prim_acts_in_tour' = tp
             ELSE two_prim_acts_in_tour' = two_prim_acts_in_tour
    /\ pc' = "chosen"
    /\ UNCHANGED <<PenaltyVars, ProductVars, ResultVars, SimulatorVars,
                   Inputs, w, z, x, d, tt, w_tour, w_subtour, loc_choice, chain_posted>>

NextChoice ==
    \/ FormulateProblem
    \/ FormulateProblemFails
    \/ SolveParticipation
    \/ SolveSequenceRow
    \/ SolveTour
    \/ SolveSubtour
    \/ SolveLocation
    \/ SolveMode

SpecChoice == InitChoice /\ [][NextChoice]_vars

\* sequence, tour, location and mode variables fixed, all their constraints hold
Chosen == pc = "chosen"

-----------------------------------------------------------------------------
(* The chaining pair of BasicModel posted on arbitrary candidate values *)

ShortDay == <<[name |-> "day", period |-> <<0, MaxPairVal - 1>>]>>

InitChain ==
    /\ act_set = <<Dawn, Dusk>>
    /\ config = [Config(OneMode, "none") EXCEPT !.time_periods = ShortDay]
    /\ activity_scoring = Scoring
    /\ travel_dict = Travel(OneMode, 0)
    /\ pc = "candidate"
    /\ w = Empty /\ w_tour = Empty /\ w_subtour = Empty
    /\ loc_choice = Empty /\ mode_ch = Empty /\ two_prim_acts_in_tour = Empty
    /\ x \in [get_labels -> 0 .. MaxPairVal - 1]
    /\ d \in [get_labels -> 0 .. MaxPairVal - 1]
    /\ tt \in [get_labels -> 0 .. 1]
    /\ z \in [get_labels \X get_labels -> Bin]
    /\ chain_posted = "none"
    /\ NoPenalties /\ NoProduct /\ NoOutput /\ NoRun

\* the two constraints of lines 99-100 for the pair (a, b)
PostChaining ==
    /\ pc = "candidate"
    /\ \E a \in get_labels, b \in get_labels :
          chain_posted' = [a |-> a, b |-> b,
                           holds |-> (InferiorTimes(z, x, d, tt, a, b) /\ SuperiorTimes(z, x, d, tt, a, b))]
    /\ pc' = "posted"
    /\ UNCHANGED <<PenaltyVars, ProductVars, ResultVars, SimulatorVars,
                   Inputs, w, z, x, d, tt, w_tour, w_subtour, loc_choice, mode_ch,
                   two_prim_acts_in_tour>>

NextChain == PostChaining

SpecChain == InitChain /\ [][NextChain]_vars

Solved == pc = "solved"

-----------------------------------------------------------------------------
(* Reading a solved sequence *)

Preds(a) == {b \in get_labels : z[b, a] = 1}

Succs(a) == {b \in get_labels : z[a, b] = 1}

IsHome(a) == get_label_to_act(a).act_type \in HomeTypes

\* the first primary or home-type activity met when following the successors of a
RECURSIVE NextStop(_, _)
NextStop(a, fuel) ==
    IF Succs(a) = {} \/ fuel = 0 THEN "none"
    ELSE LET b == CHOOSE c \in Succs(a) : TRUE
         IN IF b \in PrimaryLabels \/ IsHome(b) THEN b ELSE NextStop(b, fuel - 1)

\* the home-type activity the home-to-home chain of a starts from
RECURSIVE ChainHome(_, _)
ChainHome(a, fuel) ==
    IF IsHome(a) THEN a
    ELSE IF Preds(a) = {} \/ fuel = 0 THEN "none"
    ELSE ChainHome(CHOOSE c \in Preds(a) : TRUE, fuel - 1)

\* a is the last primary activity before the next home-type activity
LastPrimaryOfChain(a) ==
    /\ a \in PrimaryLabels
    /\ NextStop(a, Len(act_set)) /= "none"
    /\ IsHome(NextStop(a, Len(act_set)))

Horizon == Max({config.time_periods[i].period[2] : i \in DOMAIN config.time_periods})

-----------------------------------------------------------------------------
(* Bounds of the penalty grid *)

\* auxiliary deviation variables range over the grid values at most MaxSlack above
\* the largest of their lower bounds (they have no upper bound in the formulation)
MaxSlack == 1

\* penalty coefficients of the scored activity are drawn from -MaxCoefficient .. 0
MaxCoefficient == 2

\* candidate values of the objective term of an activity lie in -MaxUtility .. MaxUtility
MaxUtility == 3

\* number of persons of a scenario the Simulator runs
MaxPersons == 3

-----------------------------------------------------------------------------
(* ActivityPenalties *)

\* dict.get(a, 0)
GetOr(f, a) == IF a \in DOMAIN f THEN f[a] ELSE 0

Min(S) == CHOOSE m \in S : \A n \in S : m <= n

\* the keys (a.label, i) for i in range(len(a.desired_timing))
StartKeys(a) == {a.label} \X DOMAIN a.desired_timing

\* the keys of w_x: only for an activity with more than one desired start time
StartChoiceKeys(a) == IF Len(a.desired_timing) > 1 THEN StartKeys(a) ELSE {}

start_params(a) == activity_scoring[<<a.act_type, a.scoring_group>>]

OneStartTime_AtMost(wx, a) ==
    Len(a.desired_timing) > 1 =>
        Sum([i \in DOMAIN a.desired_timing |-> wx[a.label, i]], DOMAIN a.desired_timing) <= 1

\* only one start time per activity
OneStartTime(wx, a) ==
    Len(a.desired_timing) > 1 =>
        Sum([i \in DOMAIN a.desired_timing |-> wx[a.label, i]], DOMAIN a.desired_timing) = 1

EarlyDeviation(ea, xx, a, i) ==
    /\ ea[a.label, i] >= a.desired_timing[i] - xx[a.label]
    /\ ea[a.label, i] >= 0

LateDeviation(la, xx, a, i) ==
    /\ la[a.label, i] >= xx[a.label] - a.desired_timing[i]
    /\ la[a.label, i] >= 0

StartPenaltyTerm(ea, la, a, i) ==
    start_params(a).pen_early * ea[a.label, i] + start_params(a).pen_late * la[a.label, i]

\* minimize the penalty for being early or late
StartPenalty(xp, ea, la, wx, a, i) ==
    IF Len(a.desired_timing) > 1
    THEN /\ xp[a.label] >= StartPenaltyTerm(ea, la, a, i)
         /\ xp[a.label] <= StartPenaltyTerm(ea, la, a, i)
                              + config.solver_settings.big_m * (1 - wx[a.label, i])
    ELSE xp[a.label] = StartPenaltyTerm(ea, la, a, i)

\* the loop body of _get_start_time_penalties for activity a
get_start_time_penalties(xx, xp, ea, la, wx, a) ==
    /\ OneStartTime(wx, a)
    /\ \A i \in DOMAIN a.desired_timing :
          /\ EarlyDeviation(ea, xx, a, i)
          /\ LateDeviation(la, xx, a, i)
          /\ StartPenalty(xp, ea, la, wx, a, i)

home_act_labels == {a.label : a \in {b \in Activities : b.act_type \in {DAWN_NAME, DUSK_NAME, HOME_NAME}}}

PrimaryTypes == {a.act_type : a \in {b \in Activities : b.is_primary}}

\* next(a for a in self.activities if a.act_type == prim_type)
FirstOfType(t) ==
    act_set[CHOOSE i \in DOMAIN act_set :
               /\ act_set[i].act_type = t
               /\ \A j \in DOMAIN act_set : act_set[j].act_type = t => i <= j]

\* the activities that get a duration penalty
rel_acts ==
    {a \in Activities : a.act_type \notin {HOME_NAME, DUSK_NAME} /\ ~a.is_primary}
        \cup {FirstOfType(t) : t \in PrimaryTypes}

primary_act_labels == {FirstOfType(t).label : t \in PrimaryTypes}

\* f'{act_type}_budget'
Budget(t) ==
    CASE t = HOME_NAME -> "home_budget"
      [] t = "work" -> "work_budget"
      [] t = "shop" -> "shop_budget"
      [] OTHER -> "budget"

DurationKeys(a) == {a.label} \X DOMAIN a.desired_duration

DurationChoiceKeys(a) == IF Len(a.desired_duration) > 1 THEN DurationKeys(a) ELSE {}

duration_params_OwnRow(a) == activity_scoring[<<a.act_type, a.scoring_group>>]

\* act_params as it stands when the penalty constraint of a is posted
duration_params(a) ==
    IF a.label \in primary_act_labels THEN activity_scoring[<<Budget(a.act_type), "all">>]
    ELSE IF a.label = DAWN_NAME THEN activity_scoring[<<Budget(HOME_NAME), "all">>]
    ELSE activity_scoring[<<a.act_type, a.scoring_group>>]

SameType(a) == {b \in Activities : b.act_type = a.act_type}

des_dur_tot(a) ==
    Sum([b \in SameType(a) |-> Sum(b.desired_duration, DOMAIN b.desired_duration)], SameType(a))

\* the desired value alternative i of a is scored against
ScoredDesired(a, i) ==
    IF a.label \in primary_act_labels THEN des_dur_tot(a) ELSE a.desired_duration[i]

\* the duration a is scored on: the budget of its primary type, the budget of the
\* home-type activities (DAWN), or its own duration
ScoredDuration(dd, a) ==
    IF a.label \in primary_act_labels
    THEN Sum([b \in SameType(a) |-> dd[b.label]], SameType(a))
    ELSE IF a.label = DAWN_NAME THEN Sum(dd, home_act_labels)
    ELSE dd[a.label]

\* only one duration per activity
OneDuration(wd, a) ==
    Len(a.desired_duration) > 1 =>
        Sum([i \in DOMAIN a.desired_duration |-> wd[a.label, i]], DOMAIN a.desired_duration) = 1

ShortDeviation_NonNegativeOnly(sd, dd, a, i) == sd[a.label, i] >= 0

ShortDeviation(sd, dd, a, i) ==
    /\ sd[a.label, i] >= ScoredDesired(a, i) - ScoredDuration(dd, a)
    /\ sd[a.label, i] >= 0

LongDeviation(ld, dd, a, i) ==
    /\ ld[a.label, i] >= ScoredDuration(dd, a) - ScoredDesired(a, i)
    /\ ld[a.label, i] >= 0

DurationPenaltyTerm(sd, ld, a, i) ==
    duration_params(a).pen_short * sd[a.label, i] + duration_params(a).pen_long * ld[a.label, i]

\* minimize the penalty for performing short or long
DurationPenalty(dp, sd, ld, wd, a, i) ==
    IF Len(a.desired_duration) > 1
    THEN /\ dp[a.label] >= DurationPenaltyTerm(sd, ld, a, i)
         /\ dp[a.label] <= DurationPenaltyTerm(sd, ld, a, i)
                              + config.solver_settings.big_m * (1 - wd[a.label, i])
    ELSE dp[a.label] = DurationPenaltyTerm(sd, ld, a, i)

\* the loop body of _get_duration_penalties for the scored activity a
get_duration_penalties(dd, dp, sd, ld, wd, a) ==
    /\ OneDuration(wd, a)
    /\ \A i \in DOMAIN a.desired_duration :
          /\ ShortDeviation(sd, dd, a, i)
          /\ LongDeviation(ld, dd, a, i)
          /\ DurationPenalty(dp, sd, ld, wd, a, i)

-----------------------------------------------------------------------------
(* TravelDecisions._add_travel_cost and OptimizationCore._add_objective *)

travel_utilities == [p_travel |-> -1]

\* travel cost is a linear function of the travel time variable
add_travel_cost(tc, ttt, a) == tc[a] = travel_utilities.p_travel * ttt[a]

\* total utility of activity a if it takes place
Utility(dd, xp, dp, tc, act) ==
    activity_scoring[<<act.act_type, act.scoring_group>>].constant + dd[act.label] * 0
        + GetOr(xp, act.label) + GetOr(dp, act.label) + tc[act.label]

ObjectiveZero_UpperOnly(ww, oa, a) == oa[a] <= config.solver_settings.big_m * ww[a]

\* aux term is 0 if the activity does not take place (w = 0)
ObjectiveZero(ww, oa, a) ==
    /\ oa[a] >= -config.solver_settings.big_m * ww[a]
    /\ oa[a] <= config.solver_settings.big_m * ww[a]

ObjectiveUtility_Loose(ww, dd, xp, dp, tc, oa, act) ==
    oa[act.label] <= Utility(dd, xp, dp, tc, act) + config.solver_settings.big_m * (1 - ww[act.label])

\* aux term is exactly the total utility if the activity does take place (w = 1)
ObjectiveUtility(ww, dd, xp, dp, tc, oa, act) ==
    /\ oa[act.label] <= Utility(dd, xp, dp, tc, act) + config.solver_settings.big_m * (1 - ww[act.label])
    /\ oa[act.label] >= Utility(dd, xp, dp, tc, act) - config.solver_settings.big_m * (1 - ww[act.label])

\* the loop body of _add_objective for activity act
add_objective(ww, dd, xp, dp, tc, oa, act) ==
    /\ ObjectiveZero(ww, oa, act.label)
    /\ ObjectiveUtility(ww, dd, xp, dp, tc, oa, act)

\* the objective that is maximised
objective(oa) == Sum(oa, get_labels)

-----------------------------------------------------------------------------
(* The backend solving to optimality: all feasible schedules, the penalty   *)
(* variables of each activity, and the assignments of maximal objective     *)

Extend(f, a, v) == [b \in DOMAIN f \cup {a} |-> IF b = a THEN v ELSE f[b]]

\* the partial z made of the rows of the first n activities
RECURSIVE SequenceRows(_, _)
SequenceRows(ww, n) ==
    IF n = 0 THEN {Empty}
    ELSE {zz \in {WithRow(zp, act_set[n].label, row) :
                     zp \in SequenceRows(ww, n - 1), row \in [get_labels -> Bin]} :
             RowsFeasible(ww, zz, RowsOf(zz))}

\* the start times and durations of the first n activities
RECURSIVE Timings(_, _, _, _)
Timings(ww, zz, ttt, n) ==
    IF n = 0 THEN {[x |-> Empty, d |-> Empty]}
    ELSE {t \in {[x |-> Extend(tp.x, act_set[n].label, xa), d |-> Extend(tp.d, act_set[n].label, da)] :
                    tp \in Timings(ww, zz, ttt, n - 1), xa \in 0 .. MaxTime, da \in 0 .. MaxTime} :
             TimesFeasible(ww, zz, t.x, t.d, ttt, DOMAIN t.x)}

TourIndicators(ww, zz) ==
    {wt \in [get_labels_wo_dusk \X get_tour_numbers -> Bin] :
        /\ add_tour_indicator_variable(ww, zz, wt)
        /\ fix_number_of_primary_activities_per_tour(wt)
        /\ fix_tour_types(ww, wt)}

SubtourIndicators(zz) ==
    {ws \in [get_labels -> Bin] : add_subtour_indicator(zz, ws) /\ fix_subtour_activities(ws)}

SimpleTravelTimes(zz) ==
    {ttt \in [get_labels -> 0 .. (Max(TravelValues) + 1)] : add_simple_travel_time_constraint(zz, ttt)}

\* the values the product constraints leave to key k
ProductCandidates(zz, mc, lc, ts, k) == {v \in Bin : ProductOfChoices(zz, mc, lc, ts, k, v)}

\* every product that satisfies the product constraints: each key takes any of the
\* values its constraints leave
Products(zz, mc, lc, ts) ==
    LET free == {k \in ProductKeys : ProductCandidates(zz, mc, lc, ts, k) = Bin}
    IN IF \E k \in ProductKeys : ProductCandidates(zz, mc, lc, ts, k) = {} THEN {}
       ELSE {[k \in ProductKeys |->
                 IF k \in free THEN (IF k \in on THEN 1 ELSE 0)
                 ELSE CHOOSE v \in ProductCandidates(zz, mc, lc, ts, k) : TRUE] : on \in SUBSET free}

\* the travel time the mode specific constraint fixes
TravelTimeOf(a, prod) ==
    Sum([e \in TravelTerms(a) |->
           get_value(e[4], "travel_times", e[5], e[2], e[3]) * prod[a.label, e[1], e[2], e[3], e[4], e[5]]],
        TravelTerms(a))

ChoiceOf(zz, lc, mc, ts, prod) ==
    [tt |-> [a \in get_labels |-> TravelTimeOf(get_label_to_act(a), prod)],
     loc_choice |-> lc, mode_ch |-> mc, time_slot_ch |-> ts, mode_loc_time_decision_prod |-> prod]

\* the travel decisions: the looked up travel times, or the choices of location, mode
\* and time slot with their product and the travel times it selects
TravelChoices(zz) ==
    IF ChoiceVariablesBuilt
    THEN UNION {{ChoiceOf(zz, c[1], c[2], c[3], prod) : prod \in Products(zz, c[2], c[1], c[3])} :
             c \in {lc \in [LocChoiceKeys -> Bin] : add_location_choice_variable(lc)}
                     \X {mc \in [get_labels \X modes -> Bin] : add_mode_choice_variable(mc)}
                     \X {ts \in [get_labels \X time_periods -> Bin] :
                            \A a \in get_labels :
                                Sum([p \in time_periods |-> ts[a, p]], time_periods) = 1}}
    ELSE {[tt |-> ttt, loc_choice |-> Empty, mode_ch |-> Empty, time_slot_ch |-> Empty,
           mode_loc_time_decision_prod |-> Empty] : ttt \in SimpleTravelTimes(zz)}

\* two_prim_acts_in_tour under the sub-tour based restriction of the mode choice
TwoPrimChoices(zz, mc, wt, ws) ==
    IF ChoiceVariablesBuilt /\ SubtourBased
    THEN {tp \in [get_labels_wo_home -> Bin] : subtour_based_mode_choice_constraints(zz, mc, wt, ws, tp)}
    ELSE {Empty}

\* what add_variables posts on the branch with choice variables
add_variables(s) ==
    ChoiceVariablesBuilt =>
        /\ add_location_choice_variable(s.loc_choice)
        /\ add_time_slot_variable(s.x, s.time_slot_ch)
        /\ add_mode_choice_variable(s.mode_ch)
        /\ add_location_mode_time_slot_product(s.z, s.mode_ch, s.loc_choice, s.time_slot_ch,
                                               s.mode_loc_time_decision_prod)
        /\ add_mode_specific_travel_time_constraint(s.tt, s.mode_loc_time_decision_prod)

SchedulesOf(ww, zz, c) ==
    {s \in UNION {{[w |-> ww, z |-> zz, tt |-> c.tt, w_tour |-> wt, w_subtour |-> ws, x |-> t.x, d |-> t.d,
                    loc_choice |-> c.loc_choice, mode_ch |-> c.mode_ch, time_slot_ch |-> c.time_slot_ch,
                    mode_loc_time_decision_prod |-> c.mode_loc_time_decision_prod,
                    two_prim_acts_in_tour |-> tp] : tp \in TwoPrimChoices(zz, c.mode_ch, wt, ws)} :
                      wt \in TourIndicators(ww, zz), ws \in SubtourIndicators(zz),
                      t \in Timings(ww, zz, c.tt, Len(act_set))} :
        /\ formulate_problem(s.w, s.z, s.x, s.d, s.tt, s.w_tour, s.w_subtour)
        /\ add_variables(s)}

\* every assignment of the schedule variables that satisfies the posted constraints
FeasibleSchedules ==
    UNION {UNION {UNION {SchedulesOf(ww, zz, c) : c \in TravelChoices(zz)} :
                     zz \in SequenceRows(ww, Len(act_set))} :
              ww \in {wc \in [get_labels -> Bin] : fix_activity_participation(wc)}}

\* the grid of the deviation, penalty and utility variables
Deviations == 0 .. (MaxTime + MaxSlack)

PenaltyValues == (-(MaxCoefficient * MaxTime)) .. 0

UtilityValues == (-(2 * MaxCoefficient * MaxTime) - MaxTime) .. 1

EarlyValues(a, xx) ==
    {ea \in [StartKeys(a) -> Deviations] : \A i \in DOMAIN a.desired_timing :
        /\ EarlyDeviation(ea, xx, a, i)
        /\ ea[a.label, i] <= Max({0, a.desired_timing[i] - xx[a.label]}) + MaxSlack}

LateValues(a, xx) ==
    {la \in [StartKeys(a) -> Deviations] : \A i \in DOMAIN a.desired_timing :
        /\ LateDeviation(la, xx, a, i)
        /\ la[a.label, i] <= Max({0, xx[a.label] - a.desired_timing[i]}) + MaxSlack}

StartChoices(a) == {wx \in [StartChoiceKeys(a) -> Bin] : OneStartTime(wx, a)}

\* the start time penalty variables of activity a that satisfy its constraints
StartAssignments(a, xx) ==
    {r \in [x_penalty : [{a.label} -> PenaltyValues], ea_max : EarlyValues(a, xx),
            la_max : LateValues(a, xx), w_x : StartChoices(a)] :
        get_start_time_penalties(xx, r.x_penalty, r.ea_max, r.la_max, r.w_x, a)}

ShortValues(a, dd) ==
    {sd \in [DurationKeys(a) -> Deviations] : \A i \in DOMAIN a.desired_duration :
        /\ ShortDeviation(sd, dd, a, i)
        /\ sd[a.label, i] <= Max({0, ScoredDesired(a, i) - ScoredDuration(dd, a)}) + MaxSlack}

LongValues(a, dd) ==
    {ld \in [DurationKeys(a) -> Deviations] : \A i \in DOMAIN a.desired_duration :
        /\ LongDeviation(ld, dd, a, i)
        /\ ld[a.label, i] <= Max({0, ScoredDuration(dd, a) - ScoredDesired(a, i)}) + MaxSlack}

DurationChoices(a) == {wd \in [DurationChoiceKeys(a) -> Bin] : OneDuration(wd, a)}

\* the duration penalty variables of activity a; none for an activity that is not scored
DurationAssignments(a, dd) ==
    IF a \in rel_acts
    THEN {r \in [d_penalty : [{a.label} -> PenaltyValues], sd_max : ShortValues(a, dd),
                 ld_max : LongValues(a, dd), w_d : DurationChoices(a)] :
             get_duration_penalties(dd, r.d_penalty, r.sd_max, r.ld_max, r.w_d, a)}
    ELSE {[d_penalty |-> Empty, sd_max |-> Empty, ld_max |-> Empty, w_d |-> Empty]}

TravelCosts(a, ttt) == {tc \in [{a.label} -> PenaltyValues] : add_travel_cost(tc, ttt, a.label)}

ObjectiveTerms(a, s, xp, dp, tc) ==
    {oa \in [{a.label} -> UtilityValues] : add_objective(s.w, s.d, xp, dp, tc, oa, a)}

PenaltiesWith(a, s, st, du, tc) ==
    {[x_penalty |-> st.x_penalty, ea_max |-> st.ea_max, la_max |-> st.la_max, w_x |-> st.w_x,
      d_penalty |-> du.d_penalty, sd_max |-> du.sd_max, ld_max |-> du.ld_max, w_d |-> du.w_d,
      travel_cost |-> tc, obj_aux |-> oa] : oa \in ObjectiveTerms(a, s, st.x_penalty, du.d_penalty, tc)}

\* the penalty, travel cost and objective variables of activity a under schedule s
PenaltyAssignments(a, s) ==
    UNION {PenaltiesWith(a, s, c[1], c[2], c[3]) :
              c \in StartAssignments(a, s.x) \X DurationAssignments(a, s.d) \X TravelCosts(a, s.tt)}

\* the largest utility activity a can contribute under schedule s
BestUtility(a, s) == Max({r.obj_aux[a.label] : r \in PenaltyAssignments(a, s)})

BestOfRest(s, n) ==
    Sum([i \in (n + 1) .. Len(act_set) |-> BestUtility(act_set[i], s)], (n + 1) .. Len(act_set))

\* the largest objective each feasible schedule can reach
ScheduleBounds == [s \in FeasibleSchedules |-> BestOfRest(s, 0)]

\* every constraint ActivityPenalties, _add_travel_cost and _add_objective post
PenaltiesPosted(xx, dd, ttt, ww, xp, ea, la, wx, dp, sd, ld, wd, tc, oa) ==
    \A a \in Activities :
        /\ get_start_time_penalties(xx, xp, ea, la, wx, a)
        /\ a \in rel_acts => get_duration_penalties(dd, dp, sd, ld, wd, a)
        /\ add_travel_cost(tc, ttt, a.label)
        /\ add_objective(ww, dd, xp, dp, tc, oa, a)

\* solve_problem with the objective: the backend bounds the objective and keeps a
\* schedule only if an assignment of the penalty variables reaches the bound
SolveSchedule ==
    /\ pc = "formulated"
    /\ \E bounds \in {ScheduleBounds} : \E s \in DOMAIN bounds :
          /\ \A o \in DOMAIN bounds : bounds[o] <= bounds[s]
          /\ objective_value' = bounds[s]
          /\ w' = s.w /\ z' = s.z /\ x' = s.x /\ d' = s.d /\ tt' = s.tt
          /\ w_tour' = s.w_tour /\ w_subtour' = s.w_subtour
          /\ loc_choice' = s.loc_choice /\ mode_ch' = s.mode_ch
          /\ two_prim_acts_in_tour' = s.two_prim_acts_in_tour
          /\ time_slot_ch' = s.time_slot_ch
          /\ mode_loc_time_decision_prod' = s.mode_loc_time_decision_prod
    /\ pc' = "penalties"
    /\ UNCHANGED <<Inputs, chain_posted, x_penalty, d_penalty, ea_max, la_max, sd_max, ld_max,
                   w_x, w_d, travel_cost, obj_aux, obj_posted, ResultVars, SimulatorVars>>

Schedule ==
    [w |-> w, z |-> z, tt |-> tt, w_tour |-> w_tour, w_subtour |-> w_subtour, x |-> x, d |-> d,
     loc_choice |-> loc_choice, mode_ch |-> mode_ch, time_slot_ch |-> time_slot_ch,
     mode_loc_time_decision_prod |-> mode_loc_time_decision_prod,
     two_prim_acts_in_tour |-> two_prim_acts_in_tour]

\* the penalty variables of the next activity; a value is dropped as soon as no
\* completion can reach the bound, and the assignment is returned when every posted
\* constraint holds and the objective equals the bound
SolvePenalties ==
    /\ pc = "penalties"
    /\ LET n == Cardinality(DOMAIN obj_aux) + 1
           a == act_set[n]
       IN \E rest \in {BestOfRest(Schedule, n)} : \E r \in PenaltyAssignments(a, Schedule) :
             /\ objective(obj_aux @@ r.obj_aux @@ [b \in get_labels |-> 0]) + rest >= objective_value
             /\ x_penalty' = x_penalty @@ r.x_penalty
             /\ ea_max' = ea_max @@ r.ea_max /\ la_max' = la_max @@ r.la_max /\ w_x' = w_x @@ r.w_x
             /\ d_penalty' = d_penalty @@ r.d_penalty
             /\ sd_max' = sd_max @@ r.sd_max /\ ld_max' = ld_max @@ r.ld_max /\ w_d' = w_d @@ r.w_d
             /\ travel_cost' = travel_cost @@ r.travel_cost
             /\ obj_aux' = obj_aux @@ r.obj_aux
             /\ n = Len(act_set) =>
                   /\ PenaltiesPosted(x, d, tt, w, x_penalty', ea_max', la_max', w_x', d_penalty',
                                      sd_max', ld_max', w_d', travel_cost', obj_aux')
                   /\ objective(obj_aux') = objective_value
             /\ pc' = IF n = Len(act_set) THEN "optimal" ELSE "penalties"
    /\ UNCHANGED <<Inputs, ModelVars, objective_value, obj_posted, ProductVars, ResultVars, SimulatorVars>>

\* an activity with desired start times and desired durations
Desired(act, timing, duration) == act @@ [desired_timing |-> timing, desired_duration |-> duration]

PenaltyRow(window, constant, pen_early, pen_late, pen_short, pen_long) ==
    [feasible_start |-> window.feasible_start, feasible_end |-> window.feasible_end,
     constant |-> constant, pen_early |-> pen_early, pen_late |-> pen_late,
     pen_short |-> pen_short, pen_long |-> pen_long]

\* DAWN is due at the start of the day and is not penalised otherwise; DUSK and the
\* budget of the home-type activities carry no penalty
ScoringWithPenalties(row) ==
    [k \in {<<DAWN_NAME, "">>, <<DUSK_NAME, "">>, <<"work", "">>, <<"home_budget", "all">>} |->
        IF k = <<"work", "">> THEN row
        ELSE IF k = <<DAWN_NAME, "">> THEN PenaltyRow(Window(0, MaxTime), 0, -1, -1, 0, 0)
        ELSE PenaltyRow(Window(0, MaxTime), 0, 0, 0, 0, 0)]

\* a visit that is scored on its own start time and duration
Visit(timing, duration) ==
    Desired(Activity("visit1", "", "work", "secondary", -1, FALSE, FALSE, 1, <<"W">>, ""),
            timing, duration)

DesiredStartTimes == {<<2>>, <<1, 4>>}

DesiredDurations == {<<1>>, <<3>>}

VisitWindows == {Window(0, MaxTime), Window(2, 3)}

InitOptimal ==
    /\ \E tm \in DesiredStartTimes, du \in DesiredDurations :
          act_set = <<Desired(Dawn, <<0>>, <<MaxTime - 2>>), Visit(tm, du),
                      Desired(Dusk, <<MaxTime - 1>>, <<1>>)>>
    /\ config = Config(OneMode, "none")
    /\ \E win \in VisitWindows, pe \in {-MaxCoefficient, -1} :
          activity_scoring = ScoringWithPenalties(PenaltyRow(win, 1, pe, -1, -1, -1))
    /\ travel_dict = Travel(OneMode, 1)
    /\ pc = "start"
    /\ Unassigned

NextOptimal ==
    \/ FormulateProblem
    \/ SolveSchedule
    \/ SolvePenalties

SpecOptimal == InitOptimal /\ [][NextOptimal]_vars

Optimal == pc = "optimal"

-----------------------------------------------------------------------------
(* OptimizationCore.update_activity_set on an optimal assignment *)

\* LookupVariable finds no loc_choice or mode_ch variable and the call on None raises:
\* no choice variables were built, or a configured mode has none
ChoiceLookupFails ==
    \/ ~ChoiceVariablesBuilt
    \/ \E i \in DOMAIN config.modes : config.modes[i].name \notin modes

\* [l for l in a.locations if loc_choice == 1][0]; a single location is written as the
\* list of it
ChosenLocation(a) ==
    <<a.locations[Min({i \in DOMAIN a.locations : loc_choice[a.label, a.locations[i]] = 1})]>>

\* [mo for mo in self.config.modes if mode_ch == 1][0].__str__()
ChosenMode(a) ==
    config.modes[Min({i \in DOMAIN config.modes : mode_ch[a.label, config.modes[i].name] = 1})].name

\* the try block and its bare except: location = a.locations, mode = a.mode
ExtractedLocation(a) == IF ChoiceLookupFails THEN a.locations ELSE ChosenLocation(a)

ExtractedMode(a) == IF ChoiceLookupFails THEN "" ELSE ChosenMode(a)

\* [no for no in get_tour_numbers() if w_tour == 1]
TourNumbers(a) == {no \in get_tour_numbers : w_tour[a.label, no] = 1}

\* the [0] of an empty list: IndexError, for any activity but DUSK
TourNumberMissing == \E a \in Activities : a.act_type /= DUSK_NAME /\ TourNumbers(a) = {}

RealizedActivity(a) ==
    [label |-> a.label, participation |-> w[a.label], tour_type |-> a.tour_type,
     tour_no |-> IF a.act_type = DUSK_NAME THEN -1 ELSE Min(TourNumbers(a)),
     is_subtour |-> w_subtour[a.label],
     locations |-> ExtractedLocation(a), location_group |-> "", mode |-> ExtractedMode(a),
     realized_timing |-> x[a.label], realized_duration |-> d[a.label],
     scoring_group |-> a.scoring_group, is_primary |-> a.is_primary, act_type |-> a.act_type,
     desired_timing |-> a.desired_timing, desired_duration |-> a.desired_duration,
     travel_time |-> IF a.act_type = DUSK_NAME THEN 0 ELSE tt[a.label]]

Participating(a) == w[a.label] = 1

\* realized_activity_set: the participating activities in the order of the set
realized_activity_set ==
    LET part == SelectSeq(act_set, Participating)
    IN [i \in DOMAIN part |-> RealizedActivity(part[i])]

RealizedLabels == {a.label : a \in {b \in Activities : Participating(b)}}

\* update_activity_set returns the OutputContainer
UpdateActivitySet ==
    /\ pc = "optimal"
    /\ ~TourNumberMissing
    /\ output' = [status |-> "returned",
                  realized_activity_set |-> realized_activity_set,
                  travel_cost_dict |-> [a \in RealizedLabels |-> travel_cost[a]],
                  objective_dict |-> [a \in RealizedLabels |-> obj_aux[a]]]
    /\ pc' = "extracted"
    /\ UNCHANGED <<Inputs, ModelVars, PenaltyVars, ProductVars, looked_up, SimulatorVars>>

\* update_activity_set raises while it loops over the activities
UpdateActivitySetRaises ==
    /\ pc = "optimal"
    /\ TourNumberMissing
    /\ output' = [status |-> "raised", error |-> "IndexError"]
    /\ pc' = "extraction_failed"
    /\ UNCHANGED <<Inputs, ModelVars, PenaltyVars, ProductVars, looked_up, SimulatorVars>>

\* every start time and duration has a penalty, so that an optimal assignment leaves
\* no slack to an activity that takes place; the shop is worth the constant
ScoringPinned(constant) ==
    [k \in {<<DAWN_NAME, "">>, <<DUSK_NAME, "">>, <<"work", "">>, <<"shop", "">>,
            <<"home_budget", "all">>, <<"work_budget", "all">>} |->
        IF k = <<"work", "">> THEN PenaltyRow(Window(1, 3), 1, -1, -1, -1, -1)
        ELSE IF k = <<"shop", "">> THEN PenaltyRow(Window(3, 4), constant, -1, -1, -1, -1)
        ELSE PenaltyRow(Window(0, MaxTime), 0, -1, -1, -1, -1)]

\* DAWN, work, a shop that may be left out, and DUSK
SetOptionalShop(part) ==
    <<Desired(Dawn, <<0>>, <<3>>), Desired(Work("work1", "", 1, 1), <<1>>, <<2>>),
      Desired(Shop("secondary", FALSE, part), <<3>>, <<1>>), Desired(Dusk, <<4>>, <<2>>)>>

\* DAWN, a visit with the candidate locations and DUSK
SetVisitAt(locations) ==
    <<Desired(Dawn, <<0>>, <<MaxTime - 1>>), [Visit(<<2>>, <<1>>) EXCEPT !.locations = locations],
      Desired(Dusk, <<MaxTime - 1>>, <<1>>)>>

\* persons with one mode and one location per activity, whose shop may be optional, and
\* persons with two candidate locations whose configured modes are or are not all in
\* the matrix
InitExtract ==
    /\ \/ /\ act_set \in {SetOptionalShop(part) : part \in Participations}
          /\ config = Config(OneMode, "none")
          /\ travel_dict \in {Travel(OneMode, hw) : hw \in 0 .. 1}
       \/ /\ act_set = SetVisitAt(<<"W", "S">>)
          /\ \E mds \in {OneMode, TwoModes(FALSE)} :
                /\ config = Config(mds, "none")
                /\ travel_dict \in {Travel(OneMode, 1), Travel(mds, 1)}
    /\ activity_scoring \in {ScoringPinned(constant) : constant \in {-1, 1}}
    /\ pc = "start"
    /\ Unassigned

NextExtract ==
    \/ FormulateProblem
    \/ SolveSchedule
    \/ SolvePenalties
    \/ UpdateActivitySet
    \/ UpdateActivitySetRaises

SpecExtract == InitExtract /\ [][NextExtract]_vars

Extracted == pc \in {"extracted", "extraction_failed"}

-----------------------------------------------------------------------------
(* Persons with duration budgets: a primary type with a second activity of   *)
(* the type before or after the primary one, or with a shop                  *)

\* the budget rows have their own coefficients; DAWN and DUSK rows do not penalise
\* durations
ScoringBudget(work_short, home_short) ==
    [k \in {<<DAWN_NAME, "">>, <<DUSK_NAME, "">>, <<HOME_NAME, "">>, <<"work", "">>, <<"shop", "">>,
            <<"home_budget", "all">>, <<"work_budget", "all">>} |->
        IF k[1] \in {"work", "shop"} THEN PenaltyRow(Window(0, MaxTime), 1, -1, -1, -1, -1)
        ELSE IF k = <<"work_budget", "all">> THEN PenaltyRow(Window(0, MaxTime), 0, 0, 0, work_short, -1)
        ELSE IF k = <<"home_budget", "all">> THEN PenaltyRow(Window(0, MaxTime), 0, 0, 0, home_short, -1)
        ELSE PenaltyRow(Window(0, MaxTime), 0, -1, -1, 0, 0)]

\* an activity of type work that is not primary
Job(label) == Activity(label, "", "work", "primary", -1, FALSE, FALSE, 1, <<"W">>, "")

SetBudget ==
    {<<Desired(Dawn, <<0>>, <<3>>), Desired(pair[1], <<2>>, <<2>>), Desired(pair[2], <<3>>, <<2>>),
       Desired(Dusk, <<5>>, <<1>>)>> :
        pair \in {<<Work("work1", "", 1, 1), Job("work2")>>, <<Job("work0"), Work("work1", "", 1, 1)>>,
                  <<Work("work1", "", 1, 1), Shop("primary", FALSE, 1)>>}}

InitBudget ==
    /\ act_set \in SetBudget
    /\ config = Config(OneMode, "none")
    /\ \E work_short \in {-MaxCoefficient, -1}, home_short \in {-MaxCoefficient, -1} :
          activity_scoring = ScoringBudget(work_short, home_short)
    /\ travel_dict \in {Travel(OneMode, hw) : hw \in 0 .. 1}
    /\ pc = "start"
    /\ Unassigned

SpecBudget == InitBudget /\ [][NextOptimal]_vars

-----------------------------------------------------------------------------
(* Persons whose travel time depends on the mode, the time period and the    *)
(* locations chosen, solved to any feasible assignment                       *)

\* the day in two time periods
HalfDays ==
    <<[name |-> "am", period |-> <<0, MaxTime \div 2>>],
      [name |-> "pm", period |-> <<MaxTime \div 2, MaxTime>>]>>

\* walking takes one longer than the car, the afternoon one longer than the morning,
\* and a leg from or to S one longer than any other leg between two locations
TravelByChoice(mds) ==
    [k \in {mds[i].name : i \in DOMAIN mds} \X {"travel_times"} \X {"am", "pm"} \X Locs \X Locs |->
        (IF k[1] = "walk" THEN 1 ELSE 0) + (IF k[3] = "pm" THEN 1 ELSE 0)
            + (IF k[4] /= k[5] /\ "S" \in {k[4], k[5]} THEN 1 ELSE 0)]

InitTravel ==
    /\ \/ /\ act_set = <<Dawn, [Visit(<<2>>, <<1>>) EXCEPT !.locations = <<"W", "S">>], Dusk>>
          /\ config = [Config(TwoModes(FALSE), "none") EXCEPT !.time_periods = HalfDays]
          /\ travel_dict = TravelByChoice(TwoModes(FALSE))
       \/ /\ act_set \in SetWorkShop
          /\ config = Config(OneMode, "none")
          /\ travel_dict \in {Travel(OneMode, hw) : hw \in 0 .. 1}
    /\ activity_scoring = Scoring
    /\ pc = "start"
    /\ Unassigned

\* solve_problem stopped with a feasible assignment: any assignment that satisfies the
\* posted constraints
SolveFeasible ==
    /\ pc = "formulated"
    /\ \E s \in FeasibleSchedules :
          /\ w' = s.w /\ z' = s.z /\ x' = s.x /\ d' = s.d /\ tt' = s.tt
          /\ w_tour' = s.w_tour /\ w_subtour' = s.w_subtour
          /\ loc_choice' = s.loc_choice /\ mode_ch' = s.mode_ch
          /\ two_prim_acts_in_tour' = s.two_prim_acts_in_tour
          /\ time_slot_ch' = s.time_slot_ch
          /\ mode_loc_time_decision_prod' = s.mode_loc_time_decision_prod
    /\ pc' = "feasible"
    /\ UNCHANGED <<Inputs, chain_posted, PenaltyVars, ResultVars, SimulatorVars>>

NextTravel ==
    \/ FormulateProblem
    \/ SolveFeasible

SpecTravel == InitTravel /\ [][NextTravel]_vars

\* persons with two modes: a tour with one primary activity and a shop, or a tour with
\* two primary activities around a sub-tour stop
InitModes ==
    /\ act_set \in SetSubtour \cup {<<Dawn, Work("work1", "", 1, 1), Shop("primary", FALSE, 1), Dusk>>}
    /\ \E hb \in BOOLEAN, restr \in {"subtour_based", "none"} :
          /\ config = Config(TwoModes(hb), restr)
          /\ travel_dict = Travel(TwoModes(hb), 0)
    /\ activity_scoring = Scoring
    /\ pc = "start"
    /\ Unassigned

SpecModes == InitModes /\ [][NextTravel]_vars

Feasible == pc = "feasible"

-----------------------------------------------------------------------------
(* Persons whose travel matrix is not fully defined, and single lookups *)

\* the matrix without the entries K
Without(td, K) == [k \in DOMAIN td \ K |-> td[k]]

\* the matrix with every entry of mode m filed under another indicator
OtherIndicator(td, m) ==
    [k \in {<<j[1], IF j[1] = m THEN "travel_costs" ELSE j[2], j[3], j[4], j[5]>> : j \in DOMAIN td} |->
        td[<<k[1], "travel_times", k[3], k[4], k[5]>>]]

\* matrices of the configured modes: complete, one entry short, one mode short, and one
\* mode present without travel times
Matrices(mds) ==
    {Travel(mds, hw) : hw \in 0 .. 1}
        \cup {Without(Travel(mds, 1), {<<m[1], "travel_times", "day", od[1], od[2]>>}) :
                 m \in {<<"walk">>, <<"car">>}, od \in {<<"H", "W">>, <<"W", "W">>, <<"S", "H">>, <<"S", "W">>}}
        \cup {Travel(OneMode, 1), OtherIndicator(Travel(mds, 1), "car")}

SetVisit == {<<Dawn, [Visit(<<2>>, <<1>>) EXCEPT !.locations = ls], Dusk>> : ls \in {<<"W">>, <<"W", "S">>}}

InitLookup ==
    /\ act_set \in SetVisit
    /\ \E mds \in {OneMode, TwoModes(FALSE)} :
          /\ config = Config(mds, "none")
          /\ travel_dict \in Matrices(mds)
    /\ activity_scoring = ScoringWithPenalties(PenaltyRow(Window(0, MaxTime), 1, -1, -1, -1, -1))
    /\ pc = "start"
    /\ Unassigned

Indicators == {"travel_times", "travel_costs"}

\* one call of TravelDict.get_value
GetValue ==
    /\ pc = "start"
    /\ \E mode \in {"walk", "car"}, indicator \in Indicators, o \in Locs, dest \in Locs :
          looked_up' = [mode |-> mode, indicator |-> indicator, time_period |-> "day",
                        origin |-> o, destination |-> dest,
                        result |-> IF has_value(mode, indicator, "day", o, dest)
                                   THEN <<"value", get_value(mode, indicator, "day", o, dest)>>
                                   ELSE <<"KeyError">>]
    /\ pc' = "looked_up"
    /\ UNCHANGED <<Inputs, ModelVars, PenaltyVars, ProductVars, output, SimulatorVars>>

NextLookup ==
    \/ GetValue
    \/ FormulateProblem
    \/ FormulateProblemFails

SpecLookup == InitLookup /\ [][NextLookup]_vars

-----------------------------------------------------------------------------
(* Simulator: one problem per person, sequentially or as ray tasks *)

Person(name) == [name |-> name, activity_scoring_group |-> "all"]

\* what the backend makes of the problem of a person: solved, proved infeasible, or
\* stopped by the time limit before it found a solution
ProblemKinds == {"optimal", "infeasible", "time_limit"}

get_persons == scenario.persons

PersonSet == Range(get_persons)

\* the OutputContainer update_activity_set returns for the person
OutputContainer(person) == [person |-> person, problem |-> scenario.problem[person]]

\* update_activity_set on a model without a solution: every solution value is 0, no
\* tour number has w_tour = 1 and the [0] raises
ExtractionRaises(person) == scenario.problem[person] /= "optimal"

\* the dictionary of the Solution, empty before the Solution exists
Container == IF "output_container" \in DOMAIN solution THEN solution.output_container ELSE Empty

Running == {p \in PersonSet : task[p] \in {"started", "formulated", "solved"}}

Ended == {p \in PersonSet : task[p] \in {"done", "raised", "added"}}

InitSimulator ==
    /\ scenario \in {[persons |-> [i \in 1 .. MaxPersons |-> Person(i)], problem |-> f] :
                        f \in [{Person(i) : i \in 1 .. MaxPersons} -> ProblemKinds]}
    /\ config \in {Config(OneMode, "none") @@ [cores |-> c] : c \in 1 .. 2}
    /\ act_set = <<Dawn, Dusk>>
    /\ activity_scoring = Scoring
    /\ travel_dict = Travel(OneMode, 0)
    /\ pc = "run"
    /\ task = [p \in PersonSet |-> "idle"]
    /\ steps = [p \in PersonSet |-> <<>>]
    /\ mailbox = 0 /\ counter = 0
    /\ output_list = Empty /\ completed = <<>> /\ solution = [status |-> "none"]
    /\ w = Empty /\ z = Empty /\ x = Empty /\ d = Empty /\ tt = Empty
    /\ w_tour = Empty /\ w_subtour = Empty
    /\ loc_choice = Empty /\ mode_ch = Empty /\ two_prim_acts_in_tour = Empty
    /\ chain_posted = "none"
    /\ NoPenalties /\ NoProduct /\ NoOutput

Untouched == <<Inputs, ModelVars, PenaltyVars, ProductVars, ResultVars, scenario>>

\* run with one core: _run_sequential creates the Solution and enters its loop
RunSequential ==
    /\ pc = "run" /\ config.cores <= 1
    /\ solution' = [status |-> "running", output_container |-> Empty]
    /\ pc' = "sequential"
    /\ UNCHANGED <<Untouched, task, steps, mailbox, counter, output_list, completed>>

\* run with several cores: _run_parallel creates the counter actor and submits one task
\* per person, then polls the counter
RunParallel ==
    /\ pc = "run" /\ config.cores > 1
    /\ task' = [p \in PersonSet |-> "submitted"]
    /\ pc' = "polling"
    /\ UNCHANGED <<Untouched, steps, mailbox, counter, output_list, completed, solution>>

\* the loop of _run_sequential takes the next person when the one before is added, and
\* _solve_problem builds the OptimizationCore of the person
StartSequential ==
    /\ pc = "sequential"
    /\ \E i \in DOMAIN get_persons :
          /\ task[get_persons[i]] = "idle"
          /\ \A j \in 1 .. (i - 1) : task[get_persons[j]] = "added"
          /\ task' = [task EXCEPT ![get_persons[i]] = "started"]
          /\ steps' = [steps EXCEPT ![get_persons[i]] = <<"OptimizationCore">>]
    /\ UNCHANGED <<Untouched, pc, mailbox, counter, output_list, completed, solution>>

\* a worker starts the task f of a person: it sends inc to the counter actor and
\* _solve_problem builds the OptimizationCore of the person
StartTask ==
    /\ pc \in {"polling", "collect"}
    /\ Cardinality(Running) < config.cores
    /\ \E p \in PersonSet :
          /\ task[p] = "submitted"
          /\ task' = [task EXCEPT ![p] = "started"]
          /\ steps' = [steps EXCEPT ![p] = <<"OptimizationCore">>]
    /\ mailbox' = mailbox + 1
    /\ UNCHANGED <<Untouched, pc, counter, output_list, completed, solution>>

\* ScheduleCounterActor.inc
Inc ==
    /\ mailbox > 0
    /\ counter' = counter + 1
    /\ mailbox' = mailbox - 1
    /\ UNCHANGED <<Untouched, pc, task, steps, output_list, completed, solution>>

\* model.formulate_problem()
FormulateStep ==
    /\ \E p \in PersonSet :
          /\ task[p] = "started"
          /\ task' = [task EXCEPT ![p] = "formulated"]
          /\ steps' = [steps EXCEPT ![p] = Append(@, "formulate_problem")]
    /\ UNCHANGED <<Untouched, pc, mailbox, counter, output_list, completed, solution>>

\* model.solve_problem(problem)
SolveStep ==
    /\ \E p \in PersonSet :
          /\ task[p] = "formulated"
          /\ task' = [task EXCEPT ![p] = "solved"]
          /\ steps' = [steps EXCEPT ![p] = Append(@, "solve_problem")]
    /\ UNCHANGED <<Untouched, pc, mailbox, counter, output_list, completed, solution>>

ReadyToUpdate_Formulated(p) == task[p] \in {"formulated", "solved"}

\* solved_problem is what solve_problem returned
ReadyToUpdate(p) == task[p] = "solved"

\* model.update_activity_set(solved_problem) returns and _solve_problem returns the output
UpdateStep ==
    /\ \E p \in PersonSet :
          /\ ReadyToUpdate(p)
          /\ ~ExtractionRaises(p)
          /\ task' = [task EXCEPT ![p] = "done"]
          /\ steps' = [steps EXCEPT ![p] = Append(@, "update_activity_set")]
          /\ output_list' = output_list @@ (p :> OutputContainer(p))
          /\ completed' = Append(completed, p)
    /\ UNCHANGED <<Untouched, pc, mailbox, counter, solution>>

\* model.update_activity_set(solved_problem) raises: the task of the person ends with
\* the error, and _run_sequential, which catches nothing, ends with it as well
UpdateStepRaises ==
    /\ \E p \in PersonSet :
          /\ ReadyToUpdate(p)
          /\ ExtractionRaises(p)
          /\ task' = [task EXCEPT ![p] = "raised"]
          /\ steps' = [steps EXCEPT ![p] = Append(@, "update_activity_set")]
          /\ output_list' = output_list @@ (p :> [error |-> "IndexError"])
          /\ completed' = Append(completed, p)
    /\ IF pc = "sequential"
       THEN pc' = "raised" /\ solution' = [status |-> "raised"]
       ELSE UNCHANGED <<pc, solution>>
    /\ UNCHANGED <<Untouched, mailbox, counter>>

\* solution.add_person(person, output)
AddPerson ==
    /\ pc = "sequential"
    /\ \E p \in PersonSet :
          /\ task[p] = "done"
          /\ solution' = [solution EXCEPT !.output_container = (p :> output_list[p]) @@ @]
          /\ task' = [task EXCEPT ![p] = "added"]
    /\ UNCHANGED <<Untouched, pc, steps, mailbox, counter, output_list, completed>>

\* the loop of _run_sequential is over: return solution
ReturnSequential ==
    /\ pc = "sequential"
    /\ \A p \in PersonSet : task[p] = "added"
    /\ solution' = [solution EXCEPT !.status = "returned"]
    /\ pc' = "returned"
    /\ UNCHANGED <<Untouched, task, steps, mailbox, counter, output_list, completed>>

PollingLoopContinues_AtEqual == counter <= Len(get_persons)

\* the condition of the while loop: get_counter() < len(get_persons())
PollingLoopContinues == counter < Len(get_persons)

\* the polling loop of _run_parallel ends when the counter has reached the number of persons
Poll ==
    /\ pc = "polling"
    /\ ~PollingLoopContinues
    /\ pc' = "collect"
    /\ UNCHANGED <<Untouched, task, steps, mailbox, counter, output_list, completed, solution>>

KeyOf_Group(o) == o.person.activity_scoring_group

\* the key of {o.person: o for o in output_list}
KeyOf(o) == o.person

\* {o.person: o for o in output_list}, output_list in the order of the persons
output_container ==
    LET outs == [i \in DOMAIN get_persons |-> output_list[get_persons[i]]]
    IN [k \in {KeyOf(outs[i]) : i \in DOMAIN outs} |->
           outs[Max({i \in DOMAIN outs : KeyOf(outs[i]) = k})]]

\* ray.get(output_list) has every output: the Solution is filled and returned
Collect ==
    /\ pc = "collect"
    /\ \A p \in PersonSet : task[p] = "done"
    /\ solution' = [status |-> "returned", output_container |-> output_container]
    /\ pc' = "returned"
    /\ UNCHANGED <<Untouched, task, steps, mailbox, counter, output_list, completed>>

\* ray.get(output_list) meets the error of a task and raises it
CollectRaises ==
    /\ pc = "collect"
    /\ \E p \in PersonSet : task[p] = "raised"
    /\ solution' = [status |-> "raised"]
    /\ pc' = "raised"
    /\ UNCHANGED <<Untouched, task, steps, mailbox, counter, output_list, completed>>

NextSimulator ==
    \/ RunSequential
    \/ RunParallel
    \/ StartSequential
    \/ StartTask
    \/ Inc
    \/ FormulateStep
    \/ SolveStep
    \/ UpdateStep
    \/ UpdateStepRaises
    \/ AddPerson
    \/ ReturnSequential
    \/ Poll
    \/ Collect
    \/ CollectRaises

SpecSimulator == InitSimulator /\ [][NextSimulator]_vars

\* ray runs every submitted task on a core that is free and lets it proceed, the actor
\* executes the calls of its mailbox, and the orchestrator keeps running its loop
FairScheduling ==
    /\ WF_vars(StartTask) /\ WF_vars(Inc)
    /\ WF_vars(FormulateStep) /\ WF_vars(SolveStep)
    /\ WF_vars(UpdateStep) /\ WF_vars(UpdateStepRaises)
    /\ WF_vars(Poll) /\ WF_vars(Collect) /\ WF_vars(CollectRaises)

SpecSimulatorFair == InitSimulator /\ [][NextSimulator]_vars /\ FairScheduling

RunEnded == pc \in {"returned", "raised"}

-----------------------------------------------------------------------------
(* The objective constraints of _add_objective posted on arbitrary candidate *)
(* values of the variables they mention                                      *)

\* the candidate values of the visit and of DUSK vary, those of DAWN are fixed
Varied == {"visit1", DUSK_NAME}

CandidateValues(S, V) == {f \in [S -> V \cup {0}] : \A a \in S \ Varied : f[a] = 0}

InitObjective ==
    /\ act_set = <<Desired(Dawn, <<0>>, <<MaxTime - 2>>), Visit(<<2>>, <<1>>),
                   Desired(Dusk, <<MaxTime - 1>>, <<1>>)>>
    /\ config = Config(OneMode, "none")
    /\ activity_scoring = ScoringWithPenalties(PenaltyRow(Window(0, MaxTime), 1, -1, -1, -1, -1))
    /\ travel_dict = Travel(OneMode, 1)
    /\ pc = "candidate"
    /\ w \in {f \in [get_labels -> Bin] : f[DAWN_NAME] = 1}
    /\ d = [a \in get_labels |-> 1]
    /\ x_penalty \in CandidateValues(get_labels, -1 .. 0)
    /\ d_penalty \in CandidateValues({a.label : a \in rel_acts}, -1 .. 0)
    /\ travel_cost \in CandidateValues(get_labels, -1 .. 0)
    /\ obj_aux \in CandidateValues(get_labels, (-MaxUtility) .. MaxUtility)
    /\ z = Empty /\ x = Empty /\ tt = Empty /\ w_tour = Empty /\ w_subtour = Empty
    /\ loc_choice = Empty /\ mode_ch = Empty /\ two_prim_acts_in_tour = Empty
    /\ chain_posted = "none"
    /\ ea_max = Empty /\ la_max = Empty /\ sd_max = Empty /\ ld_max = Empty
    /\ w_x = Empty /\ w_d = Empty /\ objective_value = 0 /\ obj_posted = "none"
    /\ NoProduct /\ NoOutput /\ NoRun

\* the four constraints of the loop body of _add_objective, for every activity
PostObjective ==
    /\ pc = "candidate"
    /\ obj_posted' = [a \in get_labels |->
                         add_objective(w, d, x_penalty, d_penalty, travel_cost, obj_aux,
                                       get_label_to_act(a))]
    /\ objective_value' = objective(obj_aux)
    /\ pc' = "objective_posted"
    /\ UNCHANGED <<Inputs, ModelVars, x_penalty, d_penalty, ea_max, la_max, sd_max, ld_max,
                   w_x, w_d, travel_cost, obj_aux, ProductVars, ResultVars, SimulatorVars>>

NextObjective == PostObjective

SpecObjective == InitObjective /\ [][NextObjective]_vars

ObjectivePosted == pc = "objective_posted"

\* the same candidates under a big_m that some of their utilities exceed on either side
InitCutoff ==
    /\ act_set = <<Desired(Dawn, <<0>>, <<MaxTime - 2>>), Visit(<<2>>, <<1>>),
                   Desired(Dusk, <<MaxTime - 1>>, <<1>>)>>
    /\ \E m \in 1 .. 2 :
          config = [Config(OneMode, "none") EXCEPT !.solver_settings.big_m = m]
    /\ \E c \in {-1, 3} :
          activity_scoring = ScoringWithPenalties(PenaltyRow(Window(0, MaxTime), c, -1, -1, -1, -1))
    /\ travel_dict = Travel(OneMode, 1)
    /\ pc = "candidate"
    /\ w \in {f \in [get_labels -> Bin] : f[DAWN_NAME] = 1}
    /\ d = [a \in get_labels |-> 1]
    /\ x_penalty \in CandidateValues(get_labels, -1 .. 0)
    /\ d_penalty \in CandidateValues({a.label : a \in rel_acts}, -1 .. 0)
    /\ travel_cost \in CandidateValues(get_labels, -1 .. 0)
    /\ obj_aux \in CandidateValues(get_labels, (-MaxUtility) .. MaxUtility)
    /\ z = Empty /\ x = Empty /\ tt = Empty /\ w_tour = Empty /\ w_subtour = Empty
    /\ loc_choice = Empty /\ mode_ch = Empty /\ two_prim_acts_in_tour = Empty
    /\ chain_posted = "none"
    /\ ea_max = Empty /\ la_max = Empty /\ sd_max = Empty /\ ld_max = Empty
    /\ w_x = Empty /\ w_d = Empty /\ objective_value = 0 /\ obj_posted = "none"
    /\ NoProduct /\ NoOutput /\ NoRun

SpecCutoff == InitCutoff /\ [][NextObjective]_vars

-----------------------------------------------------------------------------
(* Claims *)

\* C1: in every feasible assignment each activity that takes place starts no earlier
\* than the feasible start and ends no later than the feasible end of its
\* (act_type, scoring_group) parameter row.
C1_FeasibleWindow ==
    Solved => \A a \in Activities :
        w[a.label] = 1 =>
            /\ activity_scoring[<<a.act_type, a.scoring_group>>].feasible_start <= x[a.label]
            /\ x[a.label] + d[a.label] <= activity_scoring[<<a.act_type, a.scoring_group>>].feasible_end

\* a solved schedule whose work episode fills its window, which is narrower than the day
C1_Witness ==
    /\ Solved
    /\ \E a \in Activities :
          /\ a.scoring_group = "core" /\ w[a.label] = 1
          /\ x[a.label] = 2 /\ x[a.label] + d[a.label] = MaxTime - 2

\* C2: in every feasible assignment the durations and travel times of all activities
\* of the set add up to the horizon, the largest end of the configured time periods.
C2_DayBudget ==
    Solved => Sum(d, get_labels) + Sum(tt, get_labels) = Horizon

\* a solved schedule in which some leg takes time
C2_Witness == Solved /\ \E a \in get_labels : tt[a] > 0

\* C3: in every feasible assignment every activity but DAWN has exactly w[a] predecessor
\* edges and every activity but DUSK exactly w[a] successor edges.
C3_OnePredecessorOneSuccessor ==
    Solved => \A a \in get_labels :
        /\ a /= DAWN_NAME => Cardinality(Preds(a)) = w[a]
        /\ a /= DUSK_NAME => Cardinality(Succs(a)) = w[a]

\* a solved schedule with an activity between two others and one that is left out
C3_Witness ==
    /\ Solved
    /\ \E a \in get_labels_wo_home : w[a] = 1 /\ Cardinality(Preds(a)) = 1 /\ Cardinality(Succs(a)) = 1
    /\ \E a \in get_labels_wo_home : w[a] = 0 /\ Preds(a) = {} /\ Succs(a) = {}

\* C5: participation given as 1 fixes w[a] = 1, participation given as 0 fixes w[a] = 0;
\* only participation = -1 leaves w[a] free.
C5_ParticipationFixed ==
    Solved => \A a \in Activities :
        /\ a.participation = 1 => w[a.label] = 1
        /\ a.participation = 0 => w[a.label] = 0

\* C6: in every feasible assignment each activity but DUSK has exactly w[a] tour indices.
C6_OneTourPerActivity ==
    Solved => \A a \in get_labels_wo_dusk :
        Cardinality({t \in get_tour_numbers : w_tour[a, t] = 1}) = w[a]

\* the type of tour number t: primary when a primary activity of tour type primary carries it
TourType(t) ==
    IF \E a \in Activities : a.is_primary /\ a.tour_no = t /\ a.tour_type = "primary"
    THEN "primary" ELSE "secondary"

\* C7: a non-home activity that takes place is only assigned to tours of its own tour
\* type, and shares its home-to-home chain only with activities of that tour type.
C7_TourTypeRespected ==
    Solved => \A a \in get_acts_wo_home :
        w[a.label] = 1 =>
            /\ \A t \in get_tour_numbers : w_tour[a.label, t] = 1 => TourType(t) = a.tour_type
            /\ \A b \in get_acts_wo_home :
                  (w[b.label] = 1 /\ ChainHome(a.label, Len(act_set)) = ChainHome(b.label, Len(act_set)))
                      => a.tour_type = b.tour_type

\* the two primary activities of a tour that carries exactly two, in the order they start
TwoPrimaryPairs ==
    {pq \in PrimaryLabels \X PrimaryLabels :
        /\ get_label_to_act(pq[1]).tour_no = get_label_to_act(pq[2]).tour_no
        /\ get_label_to_act(pq[1]).tour_no \in two_prim_act_tours
        /\ x[pq[1]] < x[pq[2]]}

SubtourFlagged == Cardinality({a \in PrimaryLabels : w_subtour[a] = 1})

\* C8 as stated: the flagged primary activity of a two-primary tour is the second one.
C8_SecondPrimaryFlagged ==
    Solved =>
        /\ SubtourFlagged = Cardinality(two_prim_act_tours)
        /\ \A pq \in TwoPrimaryPairs : w_subtour[pq[2]] = 1 /\ w_subtour[pq[1]] = 0

\* C8 amended: the number of flagged primary activities equals the number of tour
\* numbers with exactly two primary activities, and a primary activity that takes place
\* as the last primary activity of its home-to-home chain is not flagged; of the two
\* primary activities of a chain only the first (earlier-starting) can carry the flag.
C8_FirstPrimaryFlagged ==
    Solved =>
        /\ SubtourFlagged = Cardinality(two_prim_act_tours)
        /\ \A p \in PrimaryLabels : (w[p] = 1 /\ LastPrimaryOfChain(p)) => w_subtour[p] = 0
        /\ \A pq \in TwoPrimaryPairs :
              (w[pq[1]] = 1 /\ NextStop(pq[1], Len(act_set)) = pq[2]) => w_subtour[pq[2]] = 0

\* a solved two-primary tour: the earlier primary activity is flagged, the later is not
C8_Witness ==
    /\ Solved
    /\ \E pq \in TwoPrimaryPairs :
          /\ NextStop(pq[1], Len(act_set)) = pq[2]
          /\ w_subtour[pq[1]] = 1 /\ w_subtour[pq[2]] = 0

\* the end of a's leg: start, duration and travel time of a
LegEnd(a) == x[a] + d[a] + tt[a]

\* C4 as stated: with z[a,b] = 1 the chaining pair forces b to start when a's leg ends,
\* with z[a,b] = 0 the pair holds for any values of x[a], d[a], tt[a] and x[b].
C4_UnconstrainedWithoutEdge ==
    pc = "posted" =>
        LET a == chain_posted.a
            b == chain_posted.b
        IN /\ (z[a, b] = 1 /\ chain_posted.holds) => x[b] = LegEnd(a)
           /\ z[a, b] = 0 => chain_posted.holds

\* C4 amended: with z[a,b] = 1 the chaining pair holds exactly when b starts when a's
\* leg ends; with z[a,b] = 0 it holds exactly when the end of a's leg and the start of
\* b are at most one horizon apart (also for b = a).
C4_ChainingPair ==
    pc = "posted" =>
        LET a == chain_posted.a
            b == chain_posted.b
        IN /\ z[a, b] = 1 => (chain_posted.holds <=> x[b] = LegEnd(a))
           /\ z[a, b] = 0 => (chain_posted.holds <=>
                                 (LegEnd(a) - x[b] <= Horizon /\ x[b] - LegEnd(a) <= Horizon))

\* a pair without an edge whose values the chaining pair rejects
C4_Witness ==
    /\ pc = "posted"
    /\ z[chain_posted.a, chain_posted.b] = 0
    /\ chain_posted.a /= chain_posted.b
    /\ ~chain_posted.holds

\* the candidate locations chosen for activity a
ChosenLocations(a) == {l \in Range(a.locations) : loc_choice[a.label, l] = 1}

\* C9: with choice variables built, every activity has exactly one chosen location and
\* activities sharing a non-empty location group have the same chosen location.
C9_LocationGroup ==
    Chosen => \A a \in Activities :
        /\ Cardinality(ChosenLocations(a)) = 1
        /\ \A b \in Activities :
              (a.location_group /= "" /\ a.location_group = b.location_group)
                  => ChosenLocations(a) = ChosenLocations(b)

\* two members of a group, neither the first, with differently ordered candidate
\* lists, resolved to a location that is not the first candidate of the group
C9_Witness ==
    /\ Chosen
    /\ \E a \in Activities, b \in Activities :
          /\ a.location_group /= "" /\ a.location_group = b.location_group
          /\ a /= first_act(a.location_group) /\ b /= first_act(a.location_group)
          /\ a.locations /= b.locations
          /\ a.locations[1] /= b.locations[1]
          /\ ChosenLocations(a) = {"W"} /\ ChosenLocations(b) = {"W"}
          /\ ChosenLocations(first_act(a.location_group)) = {"W"}

\* the mode chosen for the leg leaving a
ChosenModes(a) == {m \in modes : mode_ch[a, m] = 1}

\* the two primary activities of a two-primary tour, the first directly followed by
\* the sub-tour that leads to the second
SubtourPairs ==
    {pq \in PrimaryLabels \X PrimaryLabels :
        /\ pq[1] /= pq[2]
        /\ get_label_to_act(pq[1]).tour_no = get_label_to_act(pq[2]).tour_no
        /\ get_label_to_act(pq[1]).tour_no \in two_prim_act_tours
        /\ NextStop(pq[1], Len(act_set)) = pq[2]}

\* C10: under subtour_based mode choice the leg arriving at the first primary activity
\* of a two-primary tour uses the mode of the leg leaving the second one.
C10_ModeAroundSubtour ==
    (Chosen /\ SubtourBased) =>
        \A pq \in SubtourPairs : \A a \in Preds(pq[1]) : ChosenModes(a) = ChosenModes(pq[2])

\* a two-primary tour entered and left by car while the sub-tour is walked
C10_Witness ==
    /\ Chosen /\ SubtourBased
    /\ \E pq \in SubtourPairs : \E a \in Preds(pq[1]) :
          /\ ChosenModes(a) = {"car"} /\ ChosenModes(pq[2]) = {"car"}
          /\ ChosenModes(pq[1]) = {"walk"}

\* max(0, n)
Pos(n) == IF n > 0 THEN n ELSE 0

\* the participating activities that are scored on their own duration and have one
\* desired duration
SingleDurationActs ==
    {a \in rel_acts : /\ a.label \notin primary_act_labels /\ a.label /= DAWN_NAME
                      /\ w[a.label] = 1 /\ Len(a.desired_duration) = 1}

ClosedFormDuration(a) ==
    duration_params(a).pen_short * Pos(a.desired_duration[1] - d[a.label])
        + duration_params(a).pen_long * Pos(d[a.label] - a.desired_duration[1])

\* C11: in every optimal solution the duration penalty of a participating, individually
\* scored activity with one desired duration equals
\* pen_short * max(0, des - d) + pen_long * max(0, d - des), and the activity has no
\* duration chooser variable.
C11_SingleDurationPenalty ==
    Optimal => \A a \in SingleDurationActs :
        /\ d_penalty[a.label] = ClosedFormDuration(a)
        /\ \A k \in DOMAIN w_d : k[1] /= a.label

\* an optimal schedule whose visit is two time units shorter than desired and pays for it
C11_Witness ==
    /\ Optimal
    /\ \E a \in SingleDurationActs :
          /\ a.desired_duration[1] - d[a.label] = 2
          /\ d_penalty[a.label] = 2 * duration_params(a).pen_short
          /\ d_penalty[a.label] < 0

\* the participating activities with more than one desired start time
SeveralStartActs == {a \in Activities : w[a.label] = 1 /\ Len(a.desired_timing) > 1}

\* pen_early * max(0, d_i - x) + pen_late * max(0, x - d_i)
ClosedFormStart(a, i) ==
    start_params(a).pen_early * Pos(a.desired_timing[i] - x[a.label])
        + start_params(a).pen_late * Pos(x[a.label] - a.desired_timing[i])

ClosedFormStarts(a) == {ClosedFormStart(a, i) : i \in DOMAIN a.desired_timing}

OneChooser(a) == Cardinality({i \in DOMAIN a.desired_timing : w_x[a.label, i] = 1}) = 1

\* C12 as stated: in every optimal solution exactly one chooser of a participating
\* activity with several desired start times is 1 and its start time penalty is the
\* minimum over the alternatives of the closed-form penalty.
C12_MinOverAlternatives ==
    Optimal => \A a \in SeveralStartActs :
        OneChooser(a) /\ x_penalty[a.label] = Min(ClosedFormStarts(a))

\* C12: in every optimal solution exactly one chooser of a participating activity with
\* several desired start times is 1 and its start time penalty is the maximum over the
\* alternatives of the closed-form penalty, that is the penalty of least magnitude, the
\* coefficients being <= 0.
C12_LeastPenaltyAlternative ==
    Optimal => \A a \in SeveralStartActs :
        OneChooser(a) /\ x_penalty[a.label] = Max(ClosedFormStarts(a))

\* an optimal schedule whose visit misses both desired start times, by different
\* penalties, and pays the smaller one
C12_Witness ==
    /\ Optimal
    /\ \E a \in SeveralStartActs :
          /\ OneChooser(a)
          /\ Max(ClosedFormStarts(a)) < 0
          /\ Min(ClosedFormStarts(a)) < Max(ClosedFormStarts(a))
          /\ x_penalty[a.label] = Max(ClosedFormStarts(a))

\* constant + x_penalty + d_penalty + travel_cost, the duration penalty counting 0 for an
\* activity without a duration penalty variable
ClosedFormUtility(a) ==
    activity_scoring[<<get_label_to_act(a).act_type, get_label_to_act(a).scoring_group>>].constant
        + x_penalty[a] + (IF a \in DOMAIN d_penalty THEN d_penalty[a] ELSE 0) + travel_cost[a]

\* C13: an assignment satisfies the objective constraints of activity a exactly when
\* obj[a] = 0 for w[a] = 0 and obj[a] = constant + x_penalty + d_penalty + travel_cost
\* for w[a] = 1 (d_penalty counting 0 without a duration penalty variable); the
\* objective is the sum of obj[a] over all activities.
C13_ObjectiveTerm ==
    ObjectivePosted =>
        /\ \A a \in get_labels :
              obj_posted[a] <=> /\ w[a] = 0 => obj_aux[a] = 0
                                /\ w[a] = 1 => obj_aux[a] = ClosedFormUtility(a)
        /\ (\A a \in get_labels : obj_posted[a]) =>
              objective_value = Sum([a \in get_labels |-> w[a] * ClosedFormUtility(a)], get_labels)

\* a feasible candidate in which the visit does not take place and has the term 0, while
\* DUSK, which has no duration penalty variable, takes place at a negative utility
C13_Witness ==
    /\ ObjectivePosted
    /\ \A a \in get_labels : obj_posted[a]
    /\ w["visit1"] = 0 /\ obj_aux["visit1"] = 0 /\ ClosedFormUtility("visit1") < 0
    /\ w[DUSK_NAME] = 1 /\ DUSK_NAME \notin DOMAIN d_penalty /\ obj_aux[DUSK_NAME] = -2
    /\ objective_value = -2

\* the combinations the model can select: a mode that has a variable, a configured
\* time period, a candidate location of an activity and one of another or the same
Selectable ==
    {c \in modes \X time_periods \X AllLocations \X AllLocations :
        \E a \in Activities, b \in Activities :
            c[3] \in Range(a.locations) /\ c[4] \in Range(b.locations)}

\* C16: a lookup returns the entry of (mode, indicator, time period, origin,
\* destination) and raises a KeyError when there is none, never a default; and
\* formulate_problem fails exactly when the travel times of a selectable combination
\* are missing, so that a formulated model has them all.
C16_LookupFailsLoudly ==
    /\ pc = "looked_up" =>
          IF <<looked_up.mode, looked_up.indicator, looked_up.time_period, looked_up.origin,
               looked_up.destination>> \in DOMAIN travel_dict
          THEN looked_up.result =
                  <<"value", travel_dict[<<looked_up.mode, looked_up.indicator, looked_up.time_period,
                                           looked_up.origin, looked_up.destination>>]>>
          ELSE looked_up.result = <<"KeyError">>
    /\ pc = "formulated" =>
          \A c \in Selectable : <<c[1], "travel_times", c[2], c[3], c[4]>> \in DOMAIN travel_dict
    /\ pc = "failed" =>
          \E c \in Selectable : <<c[1], "travel_times", c[2], c[3], c[4]>> \notin DOMAIN travel_dict

\* formulate_problem failed for a person whose matrix has both configured modes and
\* misses only the travel time of a visit location to itself
C16_Witness ==
    /\ pc = "failed"
    /\ modes = {"car", "walk"}
    /\ \E m \in modes :
          {c \in Selectable : <<c[1], "travel_times", c[2], c[3], c[4]>> \notin DOMAIN travel_dict}
              = {<<m, "day", "W", "W">>}

\* the labels of the realized activity set of the output
OutputLabels == {output.realized_activity_set[i].label : i \in DOMAIN output.realized_activity_set}

\* C14: for every solved assignment update_activity_set returns, its realized
\* activity set consists of exactly the activities with w[a] = 1, each with the solved
\* start time, duration, sub-tour flag and travel time (DUSK with tour number -1 and
\* travel time 0), and the travel cost and objective maps are keyed by exactly those
\* labels; also when an activity does not participate.
C14_ExtractionReturns ==
    Extracted =>
        /\ output.status = "returned"
        /\ OutputLabels = {a \in get_labels : w[a] = 1}
        /\ \A i \in DOMAIN output.realized_activity_set :
              LET r == output.realized_activity_set[i]
              IN /\ r.realized_timing = x[r.label] /\ r.realized_duration = d[r.label]
                 /\ r.is_subtour = w_subtour[r.label]
                 /\ r.travel_time = IF r.act_type = DUSK_NAME THEN 0 ELSE tt[r.label]
                 /\ r.act_type = DUSK_NAME => r.tour_no = -1
        /\ DOMAIN output.travel_cost_dict = OutputLabels
        /\ DOMAIN output.objective_dict = OutputLabels

\* C15: with choice variables built, the extracted location of every realized activity
\* is the one candidate with loc_choice = 1 and its extracted mode is the one mode with
\* mode_ch = 1; the fallback is not used.
C15_ChosenLocationAndMode ==
    (Extracted /\ output.status = "returned" /\ ChoiceVariablesBuilt) =>
        \A i \in DOMAIN output.realized_activity_set :
            LET r == output.realized_activity_set[i]
            IN /\ \E l \in ChosenLocations(get_label_to_act(r.label)) : r.locations = <<l>>
               /\ r.mode \in ChosenModes(r.label)

\* the calls _solve_problem makes on the model of one person
SolveProblemCalls == <<"OptimizationCore", "formulate_problem", "solve_problem", "update_activity_set">>

IsPrefix(s, t) == Len(s) <= Len(t) /\ \A i \in DOMAIN s : s[i] = t[i]

\* C17: when the model of a person is infeasible or not solved within the time limit,
\* the run still ends by returning a Solution, every person has been processed, once,
\* and the Solution holds the outputs of the persons whose model was solved.
C17_UnsolvedPersonIsNotFatal ==
    RunEnded =>
        /\ solution.status = "returned"
        /\ \A p \in PersonSet : steps[p] = SolveProblemCalls
        /\ \A p \in PersonSet : scenario.problem[p] = "optimal" => p \in DOMAIN Container

\* C18: the counter of the parallel run never exceeds the number of problems that have
\* completed, nor the number of persons.
C18_CounterCountsCompleted ==
    /\ counter <= Cardinality(Ended)
    /\ counter <= Len(get_persons)

\* C19: a run that returns, sequential or parallel and whatever the order in which the
\* problems were started and completed, returns the container that maps every person of
\* the scenario to the output of that person.
C19_PersonKeyedMapping ==
    pc = "returned" => solution.output_container = [p \in PersonSet |-> OutputContainer(p)]

\* a parallel run that returned after the problems ended in the reverse order of the
\* persons
C19_Witness ==
    /\ pc = "returned" /\ config.cores > 1
    /\ completed = [i \in DOMAIN get_persons |-> get_persons[Len(get_persons) + 1 - i]]
    /\ DOMAIN solution.output_container = PersonSet

\* C20: in both execution modes the calls on the model of a person are the construction
\* of its own OptimizationCore, formulate_problem, solve_problem and update_activity_set,
\* each once and in this order, and the output of a person is in the Solution only
\* after its update_activity_set has returned.
C20_BuildSolveExtractOnce ==
    /\ \A p \in PersonSet : IsPrefix(steps[p], SolveProblemCalls)
    /\ \A p \in DOMAIN Container :
          /\ steps[p] = SolveProblemCalls
          /\ task[p] \in {"done", "added"}
          /\ Container[p] = output_list[p]

\* a sequential run in which the first person is in the Solution while the second is
\* being solved, and a third has not been started
C20_Witness ==
    /\ pc = "sequential"
    /\ \E p \in DOMAIN Container, q \in PersonSet, r \in PersonSet :
          /\ steps[p] = SolveProblemCalls
          /\ steps[q] = <<"OptimizationCore", "formulate_problem", "solve_problem">>
          /\ steps[r] = <<>>

\* the run is parallel and the problem of every person has a solution to extract
EveryWorkerFinishes == config.cores > 1 /\ \A p \in PersonSet : ~ExtractionRaises(p)

\* run() has returned a Solution that holds every person
ReturnedAll == pc = "returned" /\ DOMAIN Container = PersonSet

\* C21: in parallel mode, under fair scheduling of the tasks and the counter actor, the
\* polling loop eventually exits, and when every task finishes run() eventually returns
\* a Solution that holds all persons.
C21_PollingLoopExits ==
    /\ (pc = "polling") ~> (pc /= "polling")
    /\ (pc = "polling" /\ EveryWorkerFinishes) ~> ReturnedAll

\* a parallel run that returned all persons after the counter counted every task
C21_Witness ==
    /\ EveryWorkerFinishes /\ ReturnedAll
    /\ counter = Len(get_persons) /\ mailbox = 0
    /\ Len(get_persons) > config.cores

\* the matrix value of the leg from a to b: of the chosen mode, time period and
\* locations, or of the single combination when no choice variables are built
LegValue(a, b) ==
    IF ChoiceVariablesBuilt
    THEN get_value(CHOOSE m \in modes : mode_ch[a.label, m] = 1, "travel_times",
                   CHOOSE p \in time_periods : time_slot_ch[a.label, p] = 1,
                   CHOOSE o \in Range(a.locations) : loc_choice[a.label, o] = 1,
                   CHOOSE dst \in Range(b.locations) : loc_choice[b.label, dst] = 1)
    ELSE get_value(CHOOSE m \in modes : TRUE, "travel_times", CHOOSE p \in time_periods : TRUE,
                   a.locations[1], b.locations[1])

\* C22: with choice variables the product of a key is 1 exactly when the edge, the mode,
\* the two locations and the time period of the key are all chosen; with or without
\* choice variables tt[a] is the matrix value of the leg to a's successor, and 0 when a
\* has no successor.
C22_TravelTimeLookedUp ==
    Feasible =>
        /\ ChoiceVariablesBuilt => \A k \in ProductKeys :
              mode_loc_time_decision_prod[k] = 1 <=>
                  /\ z[k[1], k[2]] = 1 /\ mode_ch[k[1], k[5]] = 1 /\ loc_choice[k[1], k[3]] = 1
                  /\ loc_choice[k[2], k[4]] = 1 /\ time_slot_ch[k[1], k[6]] = 1
        /\ \A a \in Activities :
              tt[a.label] = IF Succs(a.label) = {} THEN 0
                            ELSE LegValue(a, get_label_to_act(CHOOSE b \in Succs(a.label) : TRUE))

\* a feasible assignment whose two legs differ in mode and in time period: walking in
\* the morning and the car in the afternoon both take 1
C22_Witness ==
    /\ Feasible /\ ChoiceVariablesBuilt
    /\ mode_ch[DAWN_NAME, "walk"] = 1 /\ mode_ch["visit1", "car"] = 1
    /\ time_slot_ch[DAWN_NAME, "am"] = 1 /\ time_slot_ch["visit1", "pm"] = 1
    /\ loc_choice["visit1", "W"] = 1
    /\ tt[DAWN_NAME] = 1 /\ tt["visit1"] = 1 /\ tt[DUSK_NAME] = 0

\* pen_short * max(0, des - dur) + pen_long * max(0, dur - des)
ClosedForm(row, des, dur) == row.pen_short * Pos(des - dur) + row.pen_long * Pos(dur - des)

\* the summed durations and the summed desired durations of the activities of type t
TypeDuration(t) ==
    LET same == {b \in Activities : b.act_type = t} IN Sum([b \in same |-> d[b.label]], same)

TypeDesired(t) ==
    LET same == {b \in Activities : b.act_type = t}
    IN Sum([b \in same |-> Sum(b.desired_duration, DOMAIN b.desired_duration)], same)

PrimariesOfTour(t) == {p \in PrimaryLabels : w_tour[p, t] = 1}

\* C24 as stated: each primary activity has w_tour = 1 exactly for its input tour number.
C24_PrimaryKeepsTourNumber ==
    Solved => \A p \in PrimaryLabels : \A t \in get_tour_numbers :
        w_tour[p, t] = 1 <=> t = get_label_to_act(p).tour_no

\* C24 amended: each tour number has as many primary activities as carry it in the input;
\* when all primary activities carry one tour number each of them has w_tour = 1 exactly
\* for that number.
C24_PrimaryCountPerTour ==
    Solved =>
        /\ \A t \in get_tour_numbers : Cardinality(PrimariesOfTour(t)) = PrimCount(t)
        /\ Cardinality({get_label_to_act(p).tour_no : p \in PrimaryLabels}) = 1 =>
              \A p \in PrimaryLabels : \A t \in get_tour_numbers :
                  w_tour[p, t] = 1 <=> t = get_label_to_act(p).tour_no

\* two primary activities of different tours that have exchanged their tour numbers
C24_Witness ==
    /\ Solved
    /\ \E p \in PrimaryLabels, q \in PrimaryLabels :
          /\ get_label_to_act(p).tour_no = 1 /\ get_label_to_act(q).tour_no = 2
          /\ w_tour[p, 1] = 0 /\ w_tour[p, 2] = 1 /\ w_tour[q, 1] = 1 /\ w_tour[q, 2] = 0

\* b is a primary activity placed in a tour number that carries two primary activities
PrimaryOfTwo(b) == b \in PrimaryLabels /\ \E t \in two_prim_act_tours : w_tour[b, t] = 1

\* the participating activities of the home-to-home chain that starts at home activity h
ChainOf(h) == {a \in get_labels_wo_home : w[a] = 1 /\ ChainHome(a, Len(act_set)) = h}

\* C25: under subtour_based mode choice an edge into a non-home activity that is not a
\* primary activity of a two-primary tour keeps the mode; hence a tour with at most one
\* primary activity uses one mode on all its legs, and the legs leaving the activities
\* of a sub-tour use one mode.
C25_SameModeAlongTour ==
    (Feasible /\ SubtourBased) =>
        /\ \A a \in get_labels_wo_dusk : \A b \in get_labels_wo_home :
              (z[a, b] = 1 /\ ~PrimaryOfTwo(b)) => ChosenModes(a) = ChosenModes(b)
        /\ \A h \in HomeLabels :
              Cardinality(ChainOf(h) \cap PrimaryLabels) <= 1 =>
                  \A a \in ChainOf(h) : ChosenModes(a) = ChosenModes(h)
        /\ \A h \in HomeLabels : \A a \in ChainOf(h), b \in ChainOf(h) :
              (w_subtour[a] = 1 /\ w_subtour[b] = 1) => ChosenModes(a) = ChosenModes(b)

\* a tour with two primary activities that is entered by car while the first primary
\* activity and the stop of the sub-tour are left on foot
C25_Witness ==
    /\ Feasible /\ SubtourBased
    /\ Cardinality(PrimaryLabels) = 2
    /\ ChosenModes(DAWN_NAME) = {"car"}
    /\ \E p \in PrimaryLabels, a \in get_labels_wo_home \ PrimaryLabels :
          /\ z[p, a] = 1 /\ w_subtour[a] = 1
          /\ ChosenModes(p) = {"walk"} /\ ChosenModes(a) = {"walk"}

\* the first primary or home-type activity met when following the predecessors of a
RECURSIVE PrevStop(_, _)
PrevStop(a, fuel) ==
    IF Preds(a) = {} \/ fuel = 0 THEN "none"
    ELSE LET b == CHOOSE c \in Preds(a) : TRUE
         IN IF b \in PrimaryLabels \/ IsHome(b) THEN b ELSE PrevStop(b, fuel - 1)

\* the activities that are neither primary nor of a home type
Stops == get_labels_wo_home \ PrimaryLabels

\* C26: a participating non-primary activity with w_subtour = 1 lies between two primary
\* activities of one tour (a primary activity is met before any home-type activity both
\* along its predecessors and along its successors); a non-primary activity has
\* w_subtour equal to its input is_subtour flag and a home-type activity has w_subtour = 0.
C26_SubtourNested ==
    Solved =>
        /\ \A a \in Stops :
              (w[a] = 1 /\ w_subtour[a] = 1) =>
                  LET p == PrevStop(a, Len(act_set))
                      q == NextStop(a, Len(act_set))
                  IN /\ p \in PrimaryLabels /\ q \in PrimaryLabels /\ p /= q
                     /\ \E t \in get_tour_numbers : w_tour[p, t] = 1 /\ w_tour[q, t] = 1
        /\ \A a \in Stops : w_subtour[a] = 1 <=> get_label_to_act(a).is_subtour
        /\ \A h \in HomeLabels : w_subtour[h] = 0

\* two stops of which only one is declared part of the sub-tour: the declared one lies
\* between the work episodes, the other one follows the second work episode
C26_Witness ==
    /\ Solved
    /\ \E a \in Stops, b \in Stops :
          /\ w_subtour[a] = 1 /\ w_subtour[b] = 0 /\ w[a] = 1 /\ w[b] = 1
          /\ PrevStop(a, Len(act_set)) \in PrimaryLabels
          /\ NextStop(a, Len(act_set)) \in PrimaryLabels
          /\ z[NextStop(a, Len(act_set)), b] = 1 /\ z[b, DUSK_NAME] = 1

\* the participating primary activities p, q of one home-to-home chain, q being the
\* first primary activity met after p
PrimariesInOrder ==
    {pq \in PrimaryLabels \X PrimaryLabels :
        /\ pq[1] /= pq[2] /\ w[pq[1]] = 1 /\ w[pq[2]] = 1
        /\ NextStop(pq[1], Len(act_set)) = pq[2]}

\* C27: in a tour with two primary activities the first one, which the activities of the
\* sub-tour follow, has w_subtour = 1 in every feasible assignment.
C27_FirstPrimaryInSubtour ==
    Solved => \A pq \in PrimariesInOrder :
        /\ \E t \in two_prim_act_tours : w_tour[pq[1], t] = 1 /\ w_tour[pq[2], t] = 1
        /\ w_subtour[pq[1]] = 1

\* a solved day in which the work episode given second in the input comes first and
\* is flagged together with the stop that follows it
C27_Witness ==
    /\ Solved
    /\ <<"work2", "work1">> \in PrimariesInOrder
    /\ w_subtour["work2"] = 1
    /\ \E a \in Stops : z["work2", a] = 1 /\ z[a, "work1"] = 1 /\ w_subtour[a] = 1

\* the activities met when following the successors from a
RECURSIVE PathFrom(_, _)
PathFrom(a, fuel) ==
    IF Succs(a) = {} \/ fuel = 0 THEN <<a>>
    ELSE <<a>> \o PathFrom(CHOOSE c \in Succs(a) : TRUE, fuel - 1)

Realized == {a \in get_labels : w[a] = 1}

Edges == {e \in get_labels \X get_labels : z[e] = 1}

\* a positive minimal duration, no negative travel value, DAWN and DUSK take place
Provisos ==
    /\ config.model_settings.min_act_duration > 0
    /\ \A k \in DOMAIN travel_dict : travel_dict[k] >= 0
    /\ w[DAWN_NAME] = 1 /\ w[DUSK_NAME] = 1

\* C28: under the provisos every edge joins two participating activities, and the edges
\* form exactly one simple path from DAWN, which starts at 0, to DUSK, which ends at the
\* horizon; the path visits exactly the participating activities in order of increasing
\* start time, and no edge lies outside it.
C28_OnePath ==
    (Solved /\ Provisos) =>
        LET path == PathFrom(DAWN_NAME, Len(act_set)) IN
        /\ \A e \in Edges : w[e[1]] = 1 /\ w[e[2]] = 1
        /\ path[1] = DAWN_NAME /\ x[DAWN_NAME] = 0
        /\ path[Len(path)] = DUSK_NAME /\ x[DUSK_NAME] + d[DUSK_NAME] = Horizon
        /\ {path[i] : i \in 1 .. Len(path)} = Realized
        /\ Len(path) = Cardinality(Realized)
        /\ \A i \in 1 .. (Len(path) - 1) : x[path[i]] < x[path[i + 1]]
        /\ Edges = {<<path[i], path[i + 1]>> : i \in 1 .. (Len(path) - 1)}

\* a day of four activities in a row with a travelled first leg
C28_Witness ==
    /\ Solved /\ Provisos
    /\ Len(PathFrom(DAWN_NAME, Len(act_set))) = 4
    /\ Cardinality(Edges) = 3
    /\ tt[DAWN_NAME] > 0

\* C29: under the provisos an activity that does not take place has duration 0 and
\* travel time 0, and the durations and travel times of the activities that take place
\* sum to the horizon.
C29_OnlyRealizedUseTime ==
    (Solved /\ Provisos) =>
        /\ \A a \in get_labels \ Realized : d[a] = 0 /\ tt[a] = 0
        /\ Sum([a \in Realized |-> d[a] + tt[a]], Realized) = Horizon

\* a stop that is left out of a day with a travelled leg
C29_Witness ==
    /\ Solved /\ Provisos
    /\ \E a \in Stops : w[a] = 0 /\ d[a] = 0 /\ tt[a] = 0
    /\ \E b \in Realized : tt[b] > 0 /\ d[b] > 1

\* C30: whenever the objective constraints of a participating activity hold, its
\* constant + x_penalty + d_penalty + travel_cost lies within [-big_m, big_m] and obj[a]
\* equals it; a candidate whose utility exceeds big_m in magnitude violates them.
C30_UtilityWithinBigM ==
    ObjectivePosted => \A a \in get_labels :
        w[a] = 1 =>
            /\ obj_posted[a] =>
                  /\ ClosedFormUtility(a) >= -config.solver_settings.big_m
                  /\ ClosedFormUtility(a) <= config.solver_settings.big_m
                  /\ obj_aux[a] = ClosedFormUtility(a)
            /\ (ClosedFormUtility(a) < -config.solver_settings.big_m
                    \/ ClosedFormUtility(a) > config.solver_settings.big_m) => ~obj_posted[a]

\* the visit takes place at a utility below -big_m and is cut off whatever its term,
\* while DUSK takes place at exactly -big_m and is admitted
C30_Witness ==
    /\ ObjectivePosted
    /\ w["visit1"] = 1 /\ ClosedFormUtility("visit1") < -config.solver_settings.big_m
    /\ obj_aux["visit1"] = ClosedFormUtility("visit1") /\ ~obj_posted["visit1"]
    /\ w[DUSK_NAME] = 1 /\ ClosedFormUtility(DUSK_NAME) = -config.solver_settings.big_m
    /\ obj_posted[DUSK_NAME]
====
